---------------------------- MODULE Spec2Model ----------------------------
(***************************************************************************)
(* A model of idid-cli: the append-only TSV log (add_to_tsv), the reverse  *)
(* line reader (reverse_readline) and the entry reconstruction             *)
(* (get_entries / get_entries_from).                                       *)
(*                                                                         *)
(* A text is a sequence of characters and a file the sequence of the bytes *)
(* of its UTF-8 encoding; an ASCII character is one byte, written as the   *)
(* same one-character string, and EAcute stands for the characters of two  *)
(* bytes.                                                                  *)
(*                                                                         *)
(* A timestamp is written as three digit characters: calendar day, tick of *)
(* the day and UTC offset (in ticks), the shape of                         *)
(* "YYYY-MM-DD HH:MM:SS+HH:MM" at the granularity of the model.            *)
(***************************************************************************)
EXTENDS Integers, Sequences, FiniteSets, TLC

VARIABLES
    clock,  \* the instant (in ticks, UTC) of the latest wall clock reading
    appended,  \* the record the latest invocation appended, if it did
    fs,     \* the log path: [dir, exists, data]
    out,    \* the outcome of the latest operation
    editors \* the invocations with -e that wait for the editor they started

vars == <<clock, appended, fs, out, editors>>

----------------------------------------------------------------------------
(* Bounds *)

\* Ticks in one calendar day.
TicksPerDay == 2
\* The latest instant the wall clock reaches.
MaxClock == 2
\* The largest -t WHEN number of ticks in the past.
MaxWhen == 1
\* The largest UTC offset (in ticks) of the system time zone.
MaxOffset == 1
\* The longest log, in bytes, that an append makes.
MaxLogLen == 18
\* The most lines of a log that the append of one line makes.
MaxLines == 3
\* The most date ranges of one query.
MaxRanges == 2
\* The longest file, in characters, given to the reverse line reader on its
\* own.
MaxFileLen == 5

----------------------------------------------------------------------------
(* Characters *)

NL == "\n"
TAB == "\t"
SP == " "

Min(a, b) == IF a < b THEN a ELSE b

\* Code point order of the characters the model uses (str comparison).
Ord(c) ==
    CASE c = TAB -> 9
      [] c = NL -> 10
      [] c = SP -> 32
      [] c = "*" -> 42
      [] c = "0" -> 48
      [] c = "1" -> 49
      [] c = "2" -> 50
      [] c = "3" -> 51
      [] c = "4" -> 52
      [] c = "5" -> 53
      [] c = "6" -> 54
      [] c = "7" -> 55
      [] c = "8" -> 56
      [] c = "9" -> 57
      [] c = "a" -> 97
      [] c = "b" -> 98
      [] c = "E9" -> 233
      [] OTHER -> 120

\* A character of two bytes in UTF-8 (U+00E9), its lead byte and its
\* continuation byte.
EAcute == "E9"
LeadByte == "C3"
ContByte == "A9"

\* str.encode("utf-8"), the encoding of a file opened in text mode.
RECURSIVE Encode(_)
Encode(text) ==
    IF text = <<>> THEN <<>>
    ELSE (IF Head(text) = EAcute THEN <<LeadByte, ContByte>> ELSE <<Head(text)>>)
         \o Encode(Tail(text))

\* fh.seek(pos - 1); fh.read(size) on a file opened in text mode: up to size
\* characters decoded from the bytes at pos on.  The result is [err, text];
\* err is UnicodeDecodeError, raised when the bytes at pos do not start a
\* character.
RECURSIVE Read(_, _, _)
Read(data, pos, size) ==
    IF size <= 0 \/ pos > Len(data) THEN [err |-> FALSE, text |-> <<>>]
    ELSE IF data[pos] = ContByte THEN [err |-> TRUE, text |-> <<>>]
    ELSE IF data[pos] = LeadByte
    THEN IF pos < Len(data) /\ data[pos + 1] = ContByte
         THEN LET rest == Read(data, pos + 2, size - 1)
              IN  [err |-> rest.err, text |-> <<EAcute>> \o rest.text]
         ELSE [err |-> TRUE, text |-> <<>>]
    ELSE LET rest == Read(data, pos + 1, size - 1)
         IN  [err |-> rest.err, text |-> <<data[pos]>> \o rest.text]

\* str.split(sep): the pieces of s between the occurrences of sep.
RECURSIVE SplitFrom(_, _, _, _)
SplitFrom(s, sep, i, cur) ==
    IF i > Len(s) THEN <<cur>>
    ELSE IF s[i] = sep THEN <<cur>> \o SplitFrom(s, sep, i + 1, <<>>)
    ELSE SplitFrom(s, sep, i + 1, Append(cur, s[i]))

Split(s, sep) == SplitFrom(s, sep, 1, <<>>)

----------------------------------------------------------------------------
(* reverse_readline *)

\* The default working buffer of reverse_readline.
DefaultBufSize == 8192

\* The non-empty lines[index] for index = hi down to 2 (tsv.py 115-117).
RECURSIVE YieldTail(_, _)
YieldTail(lines, index) ==
    IF index < 2 THEN <<>>
    ELSE (IF lines[index] # <<>> THEN <<lines[index]>> ELSE <<>>)
         \o YieldTail(lines, index - 1)

\* The while loop of reverse_readline; segment is [some, val] (None when
\* some is FALSE), acc the lines yielded so far.  The result is
\* [raised, lines]: the lines yielded, and whether the generator then raised
\* UnicodeDecodeError instead of ending.
RECURSIVE ReadChunks(_, _, _, _, _, _)
ReadChunks(data, buf_size, segment, offset, remaining_size, acc) ==
    IF remaining_size <= 0
    THEN [raised |-> FALSE,
          lines |-> IF segment.some THEN Append(acc, segment.val) ELSE acc]
    ELSE
      LET file_size == Len(data)
          offset2 == Min(file_size, offset + buf_size)
          read == Read(data, file_size - offset2 + 1, Min(remaining_size, buf_size))
          buffer == read.text
          lines == Split(buffer, NL)
          joined == segment.some /\ buffer[Len(buffer)] # NL
          lines2 == IF joined
                    THEN [lines EXCEPT ![Len(lines)] = @ \o segment.val]
                    ELSE lines
          acc2 == IF segment.some /\ ~joined THEN Append(acc, segment.val) ELSE acc
      IN  IF read.err THEN [raised |-> TRUE, lines |-> acc]
          ELSE ReadChunks(data, buf_size, [some |-> TRUE, val |-> lines2[1]],
                          offset2, remaining_size - buf_size,
                          acc2 \o YieldTail(lines2, Len(lines2)))

\* list(reverse_readline(path, buf_size)) for a path that holds data: the
\* lines the generator yields, in order, when it is run to its end or to the
\* error it raises.
reverse_readline(data, buf_size) ==
    ReadChunks(data, buf_size, [some |-> FALSE, val |-> <<>>], 0, Len(data), <<>>)

----------------------------------------------------------------------------
(* datetime *)

\* The sub-tick part of a wall clock reading is 0..MaxMicro.
MaxMicro == 1

Digits == <<"0", "1", "2", "3", "4", "5", "6", "7", "8", "9">>

IsDigit(c) == \E n \in 1..10 : Digits[n] = c

DigitVal(c) == (CHOOSE n \in 1..10 : Digits[n] = c) - 1

\* str.isnumeric / str.isdigit on ASCII text.
IsNumeric(s) == Len(s) > 0 /\ \A i \in 1..Len(s) : IsDigit(s[i])

\* int(text) for a text of digits.
RECURSIVE ParseInt(_)
ParseInt(s) ==
    IF s = <<>> THEN 0
    ELSE 10 * ParseInt(SubSeq(s, 1, Len(s) - 1)) + DigitVal(s[Len(s)])

\* An aware datetime: local calendar day, local tick of the day, sub-tick
\* part and UTC offset.
DateTime(d, t, u, o) == [date |-> d, time |-> t, us |-> u, off |-> o]

\* The local wall clock reading of a datetime, in ticks.
Local(dt) == dt.date * TicksPerDay + dt.time

\* The datetime whose local wall clock reading is l ticks.
FromLocal(l, u, o) == DateTime(l \div TicksPerDay, l % TicksPerDay, u, o)

\* Aware datetimes compare by their UTC instant (and sub-tick part).
Key(dt) == (Local(dt) - dt.off) * (MaxMicro + 1) + dt.us

\* datetime.now().astimezone() at instant i, sub-tick u, system offset o.
Now(i, u, o) == FromLocal(i + o, u, o)

\* at_time.isoformat(" ", "seconds"): the sub-tick part is not written.
isoformat(dt) == <<Digits[dt.date + 1], Digits[dt.time + 1], Digits[dt.off + 1]>>

\* datetime.fromisoformat: [err, val]; err is TRUE for ValueError.
fromisoformat(s) ==
    IF Len(s) = 3 /\ IsNumeric(s) /\ DigitVal(s[2]) < TicksPerDay
    THEN [err |-> FALSE,
          val |-> DateTime(DigitVal(s[1]), DigitVal(s[2]), 0, DigitVal(s[3]))]
    ELSE [err |-> TRUE, val |-> DateTime(0, 0, 0, 0)]

----------------------------------------------------------------------------
(* __main__: parse_time and add_to_tsv *)

\* parse_time(text, relative): [exit, val].  text is "" (no -t), a number of
\* ticks in the past, or a clock time written <<h, ":">>; any other text
\* prints a message and exits with status 1.
parse_time(text, relative) ==
    IF text = <<>> THEN [exit |-> FALSE, val |-> relative]
    ELSE IF IsNumeric(text)
    THEN [exit |-> FALSE,
          val |-> FromLocal(Local(relative) - ParseInt(text), relative.us, relative.off)]
    ELSE IF Len(text) = 2 /\ IsDigit(text[1]) /\ text[2] = ":"
            /\ DigitVal(text[1]) < TicksPerDay
    THEN [exit |-> FALSE, val |-> [relative EXCEPT !.time = DigitVal(text[1])]]
    ELSE [exit |-> TRUE, val |-> relative]

\* " ".join(text)
RECURSIVE Join(_)
Join(words) ==
    IF words = <<>> THEN <<>>
    ELSE IF Len(words) = 1 THEN words[1]
    ELSE words[1] \o <<SP>> \o Join(Tail(words))

\* The write is retried after at most this many FileNotFoundError.
MaxRetries == 2

\* The while loop of add_to_tsv. open(path, "ta") raises FileNotFoundError
\* when the parent directory is missing and creates the file otherwise; the
\* handler makes the directories and the file.  [fs, raised, attempts].
RECURSIVE WriteAttempts(_, _, _)
WriteAttempts(f, record, attempts) ==
    IF f.dir
    THEN [fs |-> [dir |-> TRUE, exists |-> TRUE,
                  data |-> f.data \o Encode(record)],
          raised |-> FALSE, attempts |-> attempts]
    ELSE IF attempts + 1 > MaxRetries
    THEN [fs |-> f, raised |-> TRUE, attempts |-> attempts + 1]
    ELSE WriteAttempts([dir |-> TRUE, exists |-> TRUE, data |-> f.data],
                       record, attempts + 1)

add_to_tsv(text, f, at_time) ==
    WriteAttempts(f, isoformat(at_time) \o <<TAB>> \o Join(text) \o <<NL>>, 0)

----------------------------------------------------------------------------
(* entry.py and tsv.py: Entry, DateRange, get_entries *)

Entry(b, c, t) == [begin |-> b, cease |-> c, text |-> t]

\* Entry.from_tsv: [err, val]; err is TRUE for ValueError (the line does not
\* split into two fields, or the first is no timestamp).
from_tsv(tsv_line) ==
    LET parts == Split(tsv_line, TAB)
        stamp == fromisoformat(parts[1])
    IN  IF Len(parts) = 2 /\ ~stamp.err
        THEN [err |-> FALSE, val |-> Entry(stamp.val, stamp.val, parts[2])]
        ELSE [err |-> TRUE,
              val |-> Entry(DateTime(0, 0, 0, 0), DateTime(0, 0, 0, 0), <<>>)]

\* str < str
RECURSIVE LessText(_, _)
LessText(s, t) ==
    IF t = <<>> THEN FALSE
    ELSE IF s = <<>> THEN TRUE
    ELSE IF Head(s) # Head(t) THEN Ord(Head(s)) < Ord(Head(t))
    ELSE LessText(Tail(s), Tail(t))

\* An order on begin alone.
LessEntryBegin(a, b) == Key(a.begin) < Key(b.begin)

\* Entry.__lt__ of dataclass(order=True): (begin, cease, text) as a tuple.
LessEntry(a, b) ==
    IF Key(a.begin) # Key(b.begin) THEN Key(a.begin) < Key(b.begin)
    ELSE IF Key(a.cease) # Key(b.cease) THEN Key(a.cease) < Key(b.cease)
    ELSE LessText(a.text, b.text)

DateRange(b, c) == [begin |-> b, close |-> c]

\* DateRange.days
Days(r) == (r.close - r.begin) + 1

\* __contains__ without the test against close.
InRangeNoClose(timestamp, r) == r.begin <= timestamp.date

\* DateRange.__contains__
InRange(timestamp, r) == r.begin <= timestamp.date /\ timestamp.date <= r.close

\* DateRange.__lt__
LessRange(a, b) == a.begin < b.begin

\* list.sort() of a list of DateRange: a stable sort by __lt__.
RECURSIVE InsertRange(_, _)
InsertRange(sorted, x) ==
    IF sorted = <<>> THEN <<x>>
    ELSE IF LessRange(x, sorted[Len(sorted)])
    THEN Append(InsertRange(SubSeq(sorted, 1, Len(sorted) - 1), x),
                sorted[Len(sorted)])
    ELSE Append(sorted, x)

RECURSIVE SortRanges(_)
SortRanges(s) ==
    IF s = <<>> THEN <<>>
    ELSE InsertRange(SortRanges(SubSeq(s, 1, Len(s) - 1)), s[Len(s)])

\* list.sort() of a list of Entry: a stable sort by __lt__.
RECURSIVE InsertEntry(_, _)
InsertEntry(sorted, x) ==
    IF sorted = <<>> THEN <<x>>
    ELSE IF LessEntry(x, sorted[Len(sorted)])
    THEN Append(InsertEntry(SubSeq(sorted, 1, Len(sorted) - 1), x),
                sorted[Len(sorted)])
    ELSE Append(sorted, x)

RECURSIVE SortEntries(_)
SortEntries(s) ==
    IF s = <<>> THEN <<>>
    ELSE InsertEntry(SortEntries(SubSeq(s, 1, Len(s) - 1)), s[Len(s)])

\* get_default_start_text(): the sentinel that opens a marker line.
default_start_text == <<"*">>

\* startswith that wants the text to be longer than the prefix.
StartsWithStrict(s, prefix) ==
    Len(prefix) < Len(s) /\ SubSeq(s, 1, Len(prefix)) = prefix

\* str.startswith
StartsWith(s, prefix) ==
    Len(prefix) <= Len(s) /\ SubSeq(s, 1, Len(prefix)) = prefix

is_start(e) == StartsWith(e.text, default_start_text)

\* re.search of a literal pattern.
Search(pattern, text) ==
    \E i \in 1..(Len(text) + 1) :
        i + Len(pattern) - 1 <= Len(text)
        /\ SubSeq(text, i, i + Len(pattern) - 1) = pattern

\* A filter of parse_filters: the text is kept when the pattern is found
\* (found = TRUE, -f) or is not found (found = FALSE, -x).
Filter(pattern, found) == [pattern |-> pattern, found |-> found]

Accepts(f, text) == Search(f.pattern, text) = f.found

\* lambda _: True
AcceptAll == Filter(<<>>, TRUE)

\* No pending entry (last_entry = None).
NoEntry == [some |-> FALSE, val |-> Entry(DateTime(0, 0, 0, 0), DateTime(0, 0, 0, 0), <<>>),
            at |-> 0]

\* The pending entry without the assignment of its begin.
SetBeginKept(last_entry, entry) == last_entry

\* last_entry.begin = entry.cease: the pending entry began when this one
\* ceased.
SetBegin(last_entry, entry) == [last_entry EXCEPT !.begin = entry.cease]

\* The condition with the first range alone looked at.
MatchesFirstRange(last_entry, ranges, filters) ==
    /\ ~is_start(last_entry)
    /\ InRange(last_entry.begin, ranges[1])
    /\ \A k \in 1..Len(filters) : Accepts(filters[k], last_entry.text)

\* The condition under which the pending entry is appended to matching.
Matches(last_entry, ranges, filters) ==
    /\ ~is_start(last_entry)
    /\ \E k \in 1..Len(ranges) : InRange(last_entry.begin, ranges[k])
    /\ \A k \in 1..Len(filters) : Accepts(filters[k], last_entry.text)

\* A pass that never stops before the end of the source.
StopsNever(entry, ranges) == FALSE

\* The pass stops at a line dated before every date of interest.
StopsAt(entry, ranges) == entry.cease.date < ranges[1].begin

\* last_entry = None if is_start(entry) else entry; at is the position in
\* the source of the line the entry was made from.
Pending(entry, at) == [some |-> ~is_start(entry), val |-> entry, at |-> at]

\* The for loop of get_entries from the i-th line of the source on.  The
\* result is [raised, matching, pulled, emitted]: pulled counts the lines
\* taken from the source, emitted holds the positions in the source of the
\* lines whose entry was appended to matching.
RECURSIVE EntryLoop(_, _, _, _, _, _, _)
EntryLoop(source, i, ranges, filters, last_entry, matching, emitted) ==
    IF i > Len(source.lines)
    THEN IF source.broken
         THEN [raised |-> "UnicodeDecodeError", matching |-> <<>>,
               pulled |-> Len(source.lines), emitted |-> {}]
         ELSE [raised |-> "", matching |-> matching,
               pulled |-> Len(source.lines), emitted |-> emitted]
    ELSE
      LET parsed == from_tsv(source.lines[i])
          entry == parsed.val
          last == SetBegin(last_entry.val, entry)
          emit == last_entry.some /\ Matches(last, ranges, filters)
          matching2 == IF emit THEN Append(matching, last) ELSE matching
          emitted2 == IF emit THEN emitted \cup {last_entry.at} ELSE emitted
      IN  IF parsed.err
          THEN [raised |-> "ValueError", matching |-> <<>>, pulled |-> i,
                emitted |-> {}]
          ELSE IF StopsAt(entry, ranges)
          THEN [raised |-> "", matching |-> matching2, pulled |-> i,
                emitted |-> emitted2]
          ELSE EntryLoop(source, i + 1, ranges, filters, Pending(entry, i),
                         matching2, emitted2)

\* get_entries that pulls from the source before it looks at the ranges.
get_entriesEager(date_ranges, filters, source) ==
    IF source.missing
    THEN [raised |-> "FileNotFoundError", matching |-> <<>>, pulled |-> 0,
          emitted |-> {}, opened |-> FALSE]
    ELSE IF Len(date_ranges) = 0
    THEN [raised |-> "", matching |-> <<>>, pulled |-> Min(1, Len(source.lines)),
          emitted |-> {}, opened |-> TRUE]
    ELSE LET r == EntryLoop(source, 1, SortRanges(date_ranges),
                            filters, NoEntry, <<>>, {})
         IN  [raised |-> r.raised,
              matching |-> SortEntries(r.matching),
              pulled |-> r.pulled, emitted |-> r.emitted, opened |-> TRUE]

\* get_entries(date_ranges, filters, source).  source is
\* [missing, lines, broken]: the generator raises FileNotFoundError at its
\* first pull when the path is missing, and otherwise yields the lines and
\* then ends or, when broken, raises UnicodeDecodeError.
get_entries(date_ranges, filters, source) ==
    IF Len(date_ranges) = 0
    THEN [raised |-> "", matching |-> <<>>, pulled |-> 0, emitted |-> {},
          opened |-> FALSE]
    ELSE IF source.missing
    THEN [raised |-> "FileNotFoundError", matching |-> <<>>, pulled |-> 0,
          emitted |-> {}, opened |-> FALSE]
    ELSE LET r == EntryLoop(source, 1, SortRanges(date_ranges),
                            filters, NoEntry, <<>>, {})
         IN  [raised |-> r.raised,
              matching |-> SortEntries(r.matching),
              pulled |-> r.pulled, emitted |-> r.emitted, opened |-> TRUE]

\* A line source that yields nothing for a missing path.
LineSourceLenient(f, buf_size) ==
    LET read == reverse_readline(f.data, buf_size)
    IN  [missing |-> FALSE, lines |-> read.lines, broken |-> read.raised]

\* reverse_readline(path) as a line source for the path's state f.
LineSource(f, buf_size) ==
    LET read == reverse_readline(f.data, buf_size)
    IN  [missing |-> ~f.exists, lines |-> read.lines, broken |-> read.raised]

get_entries_from(f, date_ranges, filters) ==
    get_entries(date_ranges, filters, LineSource(f, DefaultBufSize))

----------------------------------------------------------------------------
(* datetime.date as cli.py uses it.  A date is its proleptic Gregorian      *)
(* ordinal (date.toordinal(): 1 is 0001-01-01, a Monday).                   *)

MINYEAR == 1
MAXYEAR == 9999

IsLeap(year) == year % 4 = 0 /\ (year % 100 # 0 \/ year % 400 = 0)

DaysInMonth(year, month) ==
    IF month = 2 THEN (IF IsLeap(year) THEN 29 ELSE 28)
    ELSE IF month \in {4, 6, 9, 11} THEN 30 ELSE 31

DaysBeforeYear(year) ==
    LET y == year - 1
    IN  y * 365 + (y \div 4) - (y \div 100) + (y \div 400)

DaysBeforeMonth(year, month) ==
    <<0, 31, 59, 90, 120, 151, 181, 212, 243, 273, 304, 334>>[month]
    + (IF month > 2 /\ IsLeap(year) THEN 1 ELSE 0)

\* date(year, month, day).toordinal() of a date that exists.
Ordinal(year, month, day) ==
    DaysBeforeYear(year) + DaysBeforeMonth(year, month) + day

\* date.max.toordinal()
MaxOrdinal == Ordinal(MAXYEAR, 12, 31)

\* date.year, date.month and date.day of the date of ordinal n.
YearOf(n) ==
    LET n0 == n - 1
        n400 == n0 \div 146097
        r400 == n0 % 146097
        n100 == r400 \div 36524
        r100 == r400 % 36524
        n4 == r100 \div 1461
        r4 == r100 % 1461
        n1 == r4 \div 365
        year == n400 * 400 + 1 + n100 * 100 + n4 * 4 + n1
    IN  IF n1 = 4 \/ n100 = 4 THEN year - 1 ELSE year

MonthOf(n) ==
    LET year == YearOf(n)
        rest == n - DaysBeforeYear(year)
    IN  CHOOSE month \in 1..12 :
            /\ DaysBeforeMonth(year, month) < rest
            /\ rest <= DaysBeforeMonth(year, month) + DaysInMonth(year, month)

DayOf(n) == n - DaysBeforeYear(YearOf(n)) - DaysBeforeMonth(YearOf(n), MonthOf(n))

\* date.weekday(): 0 is Monday, 6 is Sunday.
weekday(n) == (n + 6) % 7

\* What a function of cli.py gives back: a date, None, or an exception.
Found(d) == [is |-> "date", val |-> d, exc |-> ""]
None == [is |-> "none", val |-> 0, exc |-> ""]
Raises(exc) == [is |-> "raise", val |-> 0, exc |-> exc]

\* date(year, month, day): ValueError for a date that does not exist.
date(year, month, day) ==
    IF /\ year \in MINYEAR..MAXYEAR
       /\ month \in 1..12
       /\ day \in 1..DaysInMonth(year, month)
    THEN Found(Ordinal(year, month, day))
    ELSE Raises("ValueError")

\* d + timedelta(days=days): OverflowError outside date.min..date.max.
PlusDays(d, days) ==
    IF d + days \in 1..MaxOrdinal THEN Found(d + days) ELSE Raises("OverflowError")

----------------------------------------------------------------------------
(* cli.py: the date expressions *)

UpperCase == <<"A", "B", "C", "D", "E", "F", "G", "H", "I", "J", "K", "L", "M",
               "N", "O", "P", "Q", "R", "S", "T", "U", "V", "W", "X", "Y", "Z">>
LowerCase == <<"a", "b", "c", "d", "e", "f", "g", "h", "i", "j", "k", "l", "m",
               "n", "o", "p", "q", "r", "s", "t", "u", "v", "w", "x", "y", "z">>

\* str.lower()
Lower(text) ==
    [k \in 1..Len(text) |->
        IF \E i \in 1..26 : UpperCase[i] = text[k]
        THEN LowerCase[CHOOSE i \in 1..26 : UpperCase[i] = text[k]]
        ELSE text[k]]

\* (0[1-9]|1[0-2])
IsMonthText(t) ==
    /\ Len(t) = 2 /\ IsDigit(t[1]) /\ IsDigit(t[2])
    /\ ParseInt(t) \in 1..12

\* ([12]\d|0[1-9]|3[01])
IsDayText(t) ==
    /\ Len(t) = 2 /\ IsDigit(t[1]) /\ IsDigit(t[2])
    /\ ParseInt(t) \in 1..31

\* re.fullmatch(_regex_yyyy_mm_dd, text): [matched, year, month, day], the
\* year being <<>> when the month/day-only alternative matched.
MatchYmd(text) ==
    LET no == [matched |-> FALSE, year |-> <<>>, month |-> <<>>, day |-> <<>>]
        at(i, n) == SubSeq(text, i, i + n - 1)
        yes(y, m, d) ==
            IF IsMonthText(m) /\ IsDayText(d)
            THEN [matched |-> TRUE, year |-> y, month |-> m, day |-> d]
            ELSE no
    IN  IF Len(text) = 8 /\ IsNumeric(at(1, 4)) THEN yes(at(1, 4), at(5, 2), at(7, 2))
        ELSE IF Len(text) = 10 /\ IsNumeric(at(1, 4)) /\ text[5] = "-" /\ text[8] = "-"
        THEN yes(at(1, 4), at(6, 2), at(9, 2))
        ELSE IF Len(text) = 4 THEN yes(<<>>, at(1, 2), at(3, 2))
        ELSE IF Len(text) = 5 /\ text[3] = "-" THEN yes(<<>>, at(1, 2), at(4, 2))
        ELSE no

\* parse_yyyy_mm_dd(text, relative)
parse_yyyy_mm_dd(text, relative) ==
    LET match == MatchYmd(text)
        day == date(YearOf(relative), ParseInt(match.month), ParseInt(match.day))
    IN  IF ~match.matched THEN None
        ELSE IF match.year # <<>>
        THEN date(ParseInt(match.year), ParseInt(match.month), ParseInt(match.day))
        ELSE IF day.is = "raise" THEN day
        ELSE IF day.val >= relative
        THEN date(YearOf(relative) - 1, MonthOf(day.val), DayOf(day.val))
        ELSE day

\* _dow_locale: the abbreviated days of the week of the locale, lower case,
\* Monday first.
dow_locale ==
    << <<"m", "o", "n">>, <<"t", "u", "e">>, <<"w", "e", "d">>, <<"t", "h", "u">>,
       <<"f", "r", "i">>, <<"s", "a", "t">>, <<"s", "u", "n">> >>

\* get_last_dow without the turn of the week.
get_last_dowSameWeek(look_for, relative) == relative - look_for

\* get_last_dow(look_for, relative)
get_last_dow(look_for, relative) ==
    IF relative - look_for <= 0 THEN 7 - look_for + relative
    ELSE relative - look_for

\* _regex_dow.fullmatch(text): [matched, index, count], index the place of
\* the name in dow_locale less one, count the digits that follow the name.
MatchDow(text) ==
    IF /\ Len(text) >= 3
       /\ \E i \in 1..7 : dow_locale[i] = SubSeq(text, 1, 3)
       /\ \A k \in 4..Len(text) : IsDigit(text[k])
    THEN [matched |-> TRUE,
          index |-> (CHOOSE i \in 1..7 : dow_locale[i] = SubSeq(text, 1, 3)) - 1,
          count |-> SubSeq(text, 4, Len(text))]
    ELSE [matched |-> FALSE, index |-> 0, count |-> <<>>]

\* max(0, n)
Max0(n) == IF n > 0 THEN n ELSE 0

\* parse_dow(text, relative)
parse_dow(text, relative) ==
    LET match == MatchDow(Lower(text))
        base == get_last_dow(match.index, weekday(relative))
        days == IF match.count # <<>>
                THEN base + 7 * Max0(ParseInt(match.count) - 1)
                ELSE base
    IN  IF ~match.matched THEN None ELSE PlusDays(relative, 0 - days)

\* text_to_date(text, relative), the calendar reading date.today(); relative
\* is [some, val], None when some is FALSE.  The day of the week is parsed
\* without relative.
text_to_date(text, relative, today_is) ==
    LET today == IF relative.some THEN relative.val ELSE today_is
        lower == Lower(text)
        given_date == parse_yyyy_mm_dd(lower, today)
    IN  IF IsNumeric(text) /\ Len(text) < 4 THEN PlusDays(today, 0 - ParseInt(text))
        ELSE IF lower = <<"t", "o", "d", "a", "y">> THEN Found(today)
        ELSE IF StartsWith(lower, <<"y", "e", "s", "t", "e", "r">>)
        THEN PlusDays(today, 0 - 1)
        ELSE IF IsNumeric(SubSeq(lower, 1, Min(2, Len(lower))))
        THEN given_date
        ELSE parse_dow(lower, today_is)

----------------------------------------------------------------------------
(* cli.py: parse_date_ranges, parse_filters, get_entries_from_args *)

\* str(n) of an integer n >= 0, and the same padded with zeros to width.
RECURSIVE Str(_)
Str(n) == IF n < 10 THEN <<Digits[n + 1]>> ELSE Str(n \div 10) \o <<Digits[(n % 10) + 1]>>

RECURSIVE Padded(_, _)
Padded(n, width) == IF Len(Str(n)) >= width THEN Str(n) ELSE <<"0">> \o Padded(n, width - 1)

\* str(d) of a date: YYYY-MM-DD
StrDate(d) ==
    Padded(YearOf(d), 4) \o <<"-">> \o Padded(MonthOf(d), 2) \o <<"-">> \o Padded(DayOf(d), 2)

\* The constant parts of the messages of parse_date_ranges.
IsInvalid ==
    <<" ", "i", "s", " ", "i", "n", "v", "a", "l", "i", "d">>
MustBePositive ==
    <<" ", "m", "u", "s", "t", " ", "b", "e", " ", "p", "o", "s", "i", "t",
      "i", "v", "e", " ", "n", "u", "m", "b", "e", "r">>
MustBeLess ==
    <<" ", "m", "u", "s", "t", " ", "b", "e", " ", "l", "e", "s", "s", " ",
      "t", "h", "a", "n", " ", "1", "0", "0", "0">>
DidYouMean ==
    <<"D", "i", "d", " ", "y", "o", "u", " ", "m", "e", "a", "n", " ", "'",
      "-", "r", " ">>
DatesReversed ==
    <<"'", " ", "d", "a", "t", "e", "s", " ", "r", "e", "v", "e", "r", "s",
      "e", "d", "?">>
Quote == "'"

\* What parse_date_ranges gives back: the tuple of ranges, or an exception
\* of class raised with a message.
Ranges(date_ranges) == [raised |-> "", message |-> <<>>, ranges |-> date_ranges]

\* An exception that is swallowed: no range and no error.
Swallowed(class, message) == [raised |-> "", message |-> <<>>, ranges |-> <<>>]

Fails(class, message) == [raised |-> class, message |-> message, ranges |-> <<>>]

\* for item in arg_item.split(","), from the i-th item on: a resolved item
\* gives a range of one day, an item that gives None is skipped.
\* DateItem is the body of the loop for the i-th item, d being what
\* text_to_date gave for it.
RECURSIVE DateItems(_, _, _, _)
RECURSIVE DateItem(_, _, _, _, _)
DateItem(items, i, today_is, date_ranges, d) ==
    IF d.is = "raise" THEN Fails(d.exc, <<>>)
    ELSE DateItems(items, i + 1, today_is,
                   IF d.is = "date"
                   THEN Append(date_ranges, DateRange(d.val, d.val))
                   ELSE date_ranges)

DateItems(items, i, today_is, date_ranges) ==
    IF i > Len(items) THEN Ranges(date_ranges)
    ELSE DateItem(items, i, today_is, date_ranges,
                  text_to_date(items[i], [some |-> FALSE, val |-> 0], today_is))

\* for arg_item in args.date, from the i-th on.  DateArg goes on after the
\* items of the i-th argument gave r.
RECURSIVE DateArgs(_, _, _, _)
RECURSIVE DateArg(_, _, _, _)
DateArg(args_date, i, today_is, r) ==
    IF r.raised # "" THEN r
    ELSE DateArgs(args_date, i + 1, today_is, r.ranges)

DateArgs(args_date, i, today_is, date_ranges) ==
    IF i > Len(args_date) THEN Ranges(date_ranges)
    ELSE DateArg(args_date, i, today_is,
                 DateItems(Split(args_date[i], ","), 1, today_is, date_ranges))

\* The end of a range of days days that counts from the day after start.
CountEndAfter(start, days) == PlusDays(start, days)

\* end = start + timedelta(days=days - 1)
CountEnd(start, days) == PlusDays(start, days - 1)

\* The checks of the loop over args.range for one pair (text, days), start
\* and end being what the two texts gave: the range of the pair, or the
\* exception.
RangeBetween(text, days, start, end) ==
    IF start.is = "raise" THEN Fails(start.exc, <<>>)
    ELSE IF start.is = "none"
    THEN Fails("Exception", <<Quote>> \o text \o <<Quote>> \o IsInvalid)
    ELSE IF ~IsNumeric(days) /\ end.is = "raise" THEN Fails(end.exc, <<>>)
    ELSE IF ~IsNumeric(days) /\ end.is = "none"
    THEN Fails("Exception", <<Quote>> \o days \o IsInvalid)
    ELSE IF IsNumeric(days) /\ ParseInt(days) <= 0
    THEN Fails("Exception",
               <<Quote>> \o Str(ParseInt(days)) \o <<Quote>> \o MustBePositive)
    ELSE IF IsNumeric(days) /\ ParseInt(days) > 999
    THEN Fails("Exception",
               <<Quote>> \o Str(ParseInt(days)) \o <<Quote>> \o MustBeLess)
    ELSE IF end.is = "raise" THEN Fails(end.exc, <<>>)
    ELSE IF start.val > end.val
    THEN Fails("Exception",
               DidYouMean \o StrDate(end.val) \o <<SP>> \o StrDate(start.val)
               \o DatesReversed)
    ELSE Ranges(<<DateRange(start.val, end.val)>>)

\* The end of the pair: a date when days is not made of digits, and
\* otherwise the day that many days from start, start counted.
RangeFrom(text, days, today_is, start) ==
    RangeBetween(text, days, start,
                 IF ~IsNumeric(days)
                 THEN text_to_date(days, [some |-> FALSE, val |-> 0], today_is)
                 ELSE CountEnd(start.val, ParseInt(days)))

\* The body of the loop over args.range for one pair (text, days).
RangeOf(text, days, today_is) ==
    RangeFrom(text, days, today_is,
              text_to_date(text, [some |-> FALSE, val |-> 0], today_is))

\* for text, days in args.range, from the i-th pair on.  RangeArg goes on
\* after the i-th pair gave r.
RECURSIVE RangeArgs(_, _, _, _)
RECURSIVE RangeArg(_, _, _, _, _)
RangeArg(args_range, i, today_is, date_ranges, r) ==
    IF r.raised # "" THEN r
    ELSE RangeArgs(args_range, i + 1, today_is, date_ranges \o r.ranges)

RangeArgs(args_range, i, today_is, date_ranges) ==
    IF i > Len(args_range) THEN Ranges(date_ranges)
    ELSE RangeArg(args_range, i, today_is, date_ranges,
                  RangeOf(args_range[i][1], args_range[i][2], today_is))

\* The loop over args.range after the loop over args.date gave dates.
RangesAfter(args_range, today_is, dates) ==
    IF dates.raised # "" THEN dates
    ELSE RangeArgs(args_range, 1, today_is, dates.ranges)

\* The two loops of parse_date_ranges.
AllRanges(args, today_is) ==
    RangesAfter(args.range, today_is, DateArgs(args.date, 1, today_is, <<>>))

\* date_ranges.sort(); return tuple(date_ranges)
Sorted(all) == IF all.raised # "" THEN all ELSE Ranges(SortRanges(all.ranges))

\* parse_date_ranges that returns the ranges in the order of the arguments.
parse_date_rangesUnsorted(args, today_is) == AllRanges(args, today_is)

\* parse_date_ranges(args), the calendar reading today_is; args.date and
\* args.range are the lists of the -d and -r arguments (empty when the
\* option is not given).
parse_date_ranges(args, today_is) == Sorted(AllRanges(args, today_is))

\* on_search(pattern, found) of parse_filters: a leading "+" or "*" is
\* escaped, which makes it a literal; the patterns of the model are
\* literals.  pattern[0] raises IndexError for an empty pattern.
on_search(pattern, found) ==
    IF pattern = <<>> THEN [raised |-> "IndexError", filters |-> <<>>]
    ELSE [raised |-> "", filters |-> <<Filter(pattern, found)>>]

\* parse_filters(exclude, include); each is [some, val], None when some is
\* FALSE.
parse_filters(exclude, include) ==
    LET ex == IF exclude.some THEN on_search(exclude.val, FALSE)
              ELSE [raised |-> "", filters |-> <<>>]
        inc == IF include.some THEN on_search(include.val, TRUE)
               ELSE [raised |-> "", filters |-> <<>>]
    IN  IF ex.raised # "" THEN ex
        ELSE IF inc.raised # "" THEN inc
        ELSE IF ex.filters \o inc.filters = <<>>
        THEN [raised |-> "", filters |-> <<AcceptAll>>]
        ELSE [raised |-> "", filters |-> ex.filters \o inc.filters]

\* The date of the calendar day 0 of the log of the model: 2020-02-28, so
\* that day 1 is a 29th of February.
EpochDay == Ordinal(2020, 2, 28)

\* A range of dates as a range of calendar days of the log.
LogRange(r) == DateRange(r.begin - EpochDay, r.close - EpochDay)

\* The call of get_entries_from with what parse_entry_args gave, or its
\* exception, raised before the log is touched.
EntriesFor(parsed, filters, f) ==
    IF parsed.raised # ""
    THEN [raised |-> parsed.raised, matching |-> <<>>, pulled |-> 0,
          emitted |-> {}, opened |-> FALSE]
    ELSE IF filters.raised # ""
    THEN [raised |-> filters.raised, matching |-> <<>>, pulled |-> 0,
          emitted |-> {}, opened |-> FALSE]
    ELSE get_entries_from(f, [k \in 1..Len(parsed.ranges) |-> LogRange(parsed.ranges[k])],
                          filters.filters)

\* get_entries_from_args(args) with args.tsv in the state f.
get_entries_from_args(args, f, today_is) ==
    EntriesFor(parse_date_ranges(args, today_is),
               parse_filters(args.exclude, args.find), f)

----------------------------------------------------------------------------
(* The program as a state machine: one command line invocation at a time, *)
(* and the editors that invocations with -e wait for                      *)

\* The calendar days of the wall clock readings in time zones 0..max_offset.
DaysUpTo(max_offset) == 0..((MaxClock + max_offset) \div TicksPerDay)

ValidRanges(days) == {r \in {DateRange(b, c) : b \in days, c \in days} : r.begin <= r.close}

\* The date_ranges of a query: up to MaxRanges valid ranges, in any order.
RangeSeqs(days) == UNION {[1..n -> ValidRanges(days)] : n \in 0..MaxRanges}

\* The filters of a query: none given (parse_filters(None, None)), or -x b.
FilterSeqs == {<<AcceptAll>>, <<Filter(<<"b">>, FALSE)>>}

\* The lines of a file put together again, each with its line break.
RECURSIVE JoinLines(_)
JoinLines(lines) ==
    IF lines = <<>> THEN <<>>
    ELSE Head(lines) \o <<NL>> \o JoinLines(Tail(lines))

\* The lines of a file, the last one with or without its line break.
LinesOf(data) ==
    LET parts == Split(data, NL)
    IN  IF parts[Len(parts)] = <<>> THEN SubSeq(parts, 1, Len(parts) - 1) ELSE parts

\* The TEXT words of an append, one of them with a tab character in it and
\* one that ends with a line break; -s appends the start text.
Texts ==
    {<< <<"a">> >>, << <<"b">> >>, << <<"a", TAB, "b">> >>, << <<"a", NL>> >>,
     <<default_start_text>>}

\* The -t WHEN texts: none, ticks in the past, a clock time, and a text
\* parse_time rejects.
Whens == {<<>>} \cup {<<Digits[n + 1]>> : n \in 1..MaxWhen}
         \cup {<<"0", ":">>, <<"x">>}

\* No invocation is running.
Idle == [op |-> "idle"]

\* The latest invocation appended no record.
NotAppended ==
    [some |-> FALSE, at |-> DateTime(0, 0, 0, 0), text |-> <<>>, today |-> 0,
     earlier |-> FALSE]

Init ==
    /\ clock = MaxWhen
    /\ appended = NotAppended
    /\ fs \in {[dir |-> FALSE, exists |-> FALSE, data |-> <<>>],
               [dir |-> TRUE, exists |-> FALSE, data |-> <<>>],
               [dir |-> TRUE, exists |-> TRUE, data |-> <<>>]}
    /\ out = Idle
    /\ editors = 0

\* main() with TEXT or -s (and -t WHEN) at instant i, sub-tick u, in a time
\* zone of offset o: parse_time, then add_to_tsv.  The record goes right
\* after the last byte of the file, whatever that byte is.  appended keeps
\* the timestamp as the record has it, the day of the call, and whether the
\* log held a line before.  The two bounds end the growth of the log: the
\* append is made to a log of fewer than MaxLines lines and leaves it no
\* longer than MaxLogLen bytes.
AddToTsv(i, u, o, when, text) ==
    /\ out.op = "idle"
    /\ \E at_time \in {parse_time(when, Now(i, u, o))} :
       \E r \in {add_to_tsv(text, fs, at_time.val)} :
           /\ Len(LinesOf(fs.data)) < MaxLines
           /\ Len(r.fs.data) <= MaxLogLen
           /\ clock' = i
           /\ IF at_time.exit
              THEN /\ fs' = fs
                   /\ appended' = NotAppended
                   /\ out' = [op |-> "exit"]
              ELSE /\ fs' = r.fs
                   /\ appended' = IF r.raised THEN NotAppended
                                  ELSE [some |-> TRUE,
                                        at |-> fromisoformat(isoformat(at_time.val)).val,
                                        text |-> Join(text), today |-> Now(i, u, o).date,
                                        earlier |-> fs.data # <<>>]
                   /\ out' = [op |-> "add", raised |-> r.raised,
                              attempts |-> r.attempts]
    /\ UNCHANGED editors

\* get_entries_from(path, date_ranges, filters)
Query(date_ranges, filters) ==
    /\ out.op = "idle"
    /\ out' = [op |-> "query", ranges |-> date_ranges, filters |-> filters,
               res |-> get_entries_from(fs, date_ranges, filters)]
    /\ UNCHANGED <<clock, appended, fs, editors>>

\* The lines whose positions are in keep, from the k-th on, in their order.
RECURSIVE Pick(_, _, _)
Pick(lines, keep, k) ==
    IF k > Len(lines) THEN <<>>
    ELSE (IF k \in keep THEN <<lines[k]>> ELSE <<>>) \o Pick(lines, keep, k + 1)

\* The file as it is, and the file with any of its lines deleted.
Kept(data) ==
    {data} \cup {JoinLines(Pick(LinesOf(data), keep, 1)) :
                    keep \in SUBSET (1..Len(LinesOf(data)))}

\* The most lines of a file typed anew in the editor.
MaxEditLines == 2

\* The lines typed in the editor: a record, a line that is no record, and
\* an empty line.
EditorLines == {<<"0", "1", "0", TAB, "b">>, <<"x">>, <<>>}

\* The file without the line break of its last line.
Unterminated(data) ==
    IF data # <<>> /\ data[Len(data)] = NL THEN SubSeq(data, 1, Len(data) - 1) ELSE data

\* The files typed anew: up to MaxEditLines lines of EditorLines, the last
\* one with or without its line break.
EditorFiles ==
    LET whole == {JoinLines(lines) :
                     lines \in UNION {[1..n -> EditorLines] : n \in 0..MaxEditLines}}
    IN  whole \cup {Unterminated(data) : data \in whole}

\* The values of EDITOR: not set (or empty), a name that is no program, and
\* the name of an editor.
Editors == {<<>>, <<"e">>, <<"v", "i">>}

\* The programs that subprocess.run finds.
Programs == {<<"v", "i">>}

\* The most editors open at a time.
MaxEditors == 1

\* main() with -e: edit_tsv(path).  Without EDITOR nothing is run and False
\* is returned.  With it subprocess.run starts the program on the path, or
\* raises FileNotFoundError when there is no such program; the invocation
\* then waits for the editor, and other invocations run in the meantime.
\* out keeps what edit_tsv returned, or the exception it raised.
EditTsv(editor) ==
    /\ out.op = "idle"
    /\ IF editor = <<>>
       THEN /\ editors' = editors
            /\ out' = [op |-> "edit", returned |-> FALSE, raised |-> ""]
       ELSE IF editor \notin Programs
       THEN /\ editors' = editors
            /\ out' = [op |-> "edit", returned |-> FALSE, raised |-> "FileNotFoundError"]
       ELSE /\ editors < MaxEditors
            /\ editors' = editors + 1
            /\ out' = out
    /\ UNCHANGED <<clock, appended, fs>>

\* An editor writes its buffer to the path.  The buffer is what the user
\* made of what the editor read when it was started, whatever the file holds
\* by now: new_data is no function of the file.  The write makes the file
\* when it is missing and fails when the directory is missing.  A record
\* appended before is no longer the latest change of the log.
EditorSave(new_data) ==
    /\ editors > 0
    /\ out.op = "idle"
    /\ fs.dir
    /\ fs' = [fs EXCEPT !.exists = TRUE, !.data = new_data]
    /\ appended' = IF fs.exists /\ new_data = fs.data THEN appended ELSE NotAppended
    /\ UNCHANGED <<clock, out, editors>>

\* An editor is quit: subprocess.run returns and edit_tsv returns True.
EditorQuit ==
    /\ editors > 0
    /\ out.op = "idle"
    /\ editors' = editors - 1
    /\ out' = [op |-> "edit", returned |-> TRUE, raised |-> ""]
    /\ UNCHANGED <<clock, appended, fs>>

\* The invocation ends, its operation being over.
Exit ==
    /\ out.op \notin {"idle", "adding"}
    /\ out' = Idle
    /\ UNCHANGED <<clock, appended, fs, editors>>

----------------------------------------------------------------------------
(* Queries from the command line: -d and -r arguments *)

\* The most -d arguments and the most -r pairs of one command line.
MaxArgs == 2

\* DATE texts: days ago, names, month and day, a full date, days of the
\* week, and texts of no form.
DateTexts ==
    {<<"0">>, <<"1">>, <<"t", "o", "d", "a", "y">>, <<"0", "2", "2", "7">>, <<"0", "2", "2", "9">>,
     <<"2", "0", "2", "0", "-", "0", "2", "-", "2", "8">>, <<"s", "a", "t">>, <<"f", "r", "i", "2">>, <<"x">>, <<>>}

\* The -d arguments: one DATE, or two with a comma between them.
DateArgTexts ==
    DateTexts \cup {<<"0", ",", "t", "o", "d", "a", "y">>, <<"1", ",", "x">>, <<"x", ",", "0">>}

\* The -r pairs.
RangeStarts == {<<"1">>, <<"t", "o", "d", "a", "y">>, <<"2", "0", "1", "9", "-", "0", "1", "-", "0", "1">>, <<"x">>}
RangeEnds ==
    {<<"2">>, <<"0">>, <<"9", "9", "9">>, <<"1", "0", "0", "0">>, <<"1", "0", "1", "0">>,
     <<"t", "o", "d", "a", "y">>, <<"y", "e", "s", "t", "e", "r", "d", "a", "y">>, <<"x">>}
RangePairs == {<<a, b>> : a \in RangeStarts, b \in RangeEnds}

\* The -r pairs that give a range whatever the day.
GoodPairs ==
    {<<a, b>> : a \in {<<"1">>, <<"2", "0", "1", "9", "-", "0", "1", "-", "0", "1">>},
                b \in {<<"2">>, <<"9", "9", "9">>, <<"t", "o", "d", "a", "y">>}}

\* The same and two pairs that are rejected: no day, and dates reversed.
MixedPairs ==
    GoodPairs \cup {<< <<"1">>, <<"0">> >>,
                    << <<"t", "o", "d", "a", "y">>, <<"y", "e", "s", "t", "e", "r", "d", "a", "y">> >>}

\* A command line with these -d arguments and -r pairs, no -f and no -x.
ArgsOf(args_date, args_range) ==
    [date |-> args_date, range |-> args_range,
     exclude |-> [some |-> FALSE, val |-> <<>>],
     find |-> [some |-> FALSE, val |-> <<>>]]

\* The command lines: at most MaxArgs -d arguments; one -r pair; a -d
\* argument and MaxArgs -r pairs.
CommandLines ==
    {ArgsOf(d, <<>>) : d \in UNION {[1..n -> DateArgTexts] : n \in 0..MaxArgs}}
    \cup {ArgsOf(<<>>, <<r>>) : r \in RangePairs}
    \cup {ArgsOf(<<d>>, r) : d \in {<<"0">>, <<"x">>}, r \in [1..MaxArgs -> MixedPairs]}

\* date.today() at instant i in the time zone of offset o.
Today(i, o) == EpochDay + Now(i, 0, o).date

\* get_entries_from_args(args) at instant i.  parsed keeps what
\* parse_date_ranges gave for the same arguments.
QueryArgs(i, args) ==
    /\ out.op = "idle"
    /\ clock' = i
    /\ out' = [op |-> "args", args |-> args, today |-> Today(i, 0),
               parsed |-> parse_date_ranges(args, Today(i, 0)),
               res |-> get_entries_from_args(args, fs, Today(i, 0))]
    /\ UNCHANGED <<appended, fs, editors>>

\* next(tsv.reverse_readline(path)): the first line that the generator
\* yields, or the exception of the pull; StopIteration when it yields none.
FirstLine(source) ==
    IF source.missing THEN [raised |-> "FileNotFoundError", line |-> <<>>]
    ELSE IF source.lines # <<>> THEN [raised |-> "", line |-> source.lines[1]]
    ELSE IF source.broken THEN [raised |-> "UnicodeDecodeError", line |-> <<>>]
    ELSE [raised |-> "StopIteration", line |-> <<>>]

\* The end of main() when show_in_progress: the entries are shown, then the
\* last line of the log is read once more and the time since then is shown
\* when the line is dated today.  The result is what main() came to: the
\* exception that ended it, the entries it showed and whether it showed the
\* time in progress.
InProgress(entries, first, today_is) ==
    IF entries.raised # ""
    THEN [op |-> "main", raised |-> entries.raised, entries |-> <<>>,
          in_progress |-> FALSE]
    ELSE IF first.raised # ""
    THEN [op |-> "main", raised |-> first.raised, entries |-> entries.matching,
          in_progress |-> FALSE]
    ELSE IF from_tsv(first.line).err
    THEN [op |-> "main", raised |-> "ValueError", entries |-> entries.matching,
          in_progress |-> FALSE]
    ELSE [op |-> "main", raised |-> "", entries |-> entries.matching,
          in_progress |-> EpochDay + from_tsv(first.line).val.begin.date = today_is]

\* main() without TEXT, -s, -e, -d and -r at instant i in a time zone of
\* offset o: args.date = ["0"].
ShowInProgress(i, o) ==
    /\ out.op = "idle"
    /\ clock' = i
    /\ out' = InProgress(get_entries_from_args(ArgsOf(<< <<"0">> >>, <<>>), fs, Today(i, o)),
                         FirstLine(LineSource(fs, DefaultBufSize)), Today(i, o))
    /\ UNCHANGED <<appended, fs, editors>>

----------------------------------------------------------------------------
(* The invocations of a behaviour *)

\* Every invocation in one time zone.
Next ==
    \/ \E i \in clock..MaxClock, u \in 0..MaxMicro, when \in Whens, text \in Texts :
          AddToTsv(i, u, 0, when, text)
    \/ \E date_ranges \in RangeSeqs(DaysUpTo(0)), filters \in FilterSeqs :
          Query(date_ranges, filters)
    \/ \E i \in clock..MaxClock : ShowInProgress(i, 0)
    \/ \E editor \in Editors : EditTsv(editor)
    \/ \E new_data \in Kept(fs.data) \cup EditorFiles : EditorSave(new_data)
    \/ EditorQuit
    \/ Exit

Spec == Init /\ [][Next]_vars

\* The system time zone changes between invocations; appends are made
\* without -t.
NextZones ==
    \/ \E i \in clock..MaxClock, u \in 0..MaxMicro, o \in 0..MaxOffset,
          text \in {<< <<"a">> >>, <<default_start_text>>} :
          AddToTsv(i, u, o, <<>>, text)
    \/ \E date_ranges \in RangeSeqs(DaysUpTo(MaxOffset)) :
          Query(date_ranges, <<AcceptAll>>)
    \/ \E i \in clock..MaxClock, o \in 0..MaxOffset : ShowInProgress(i, o)
    \/ \E editor \in Editors : EditTsv(editor)
    \/ \E new_data \in Kept(fs.data) \cup EditorFiles : EditorSave(new_data)
    \/ EditorQuit
    \/ Exit

SpecZones == Init /\ [][NextZones]_vars

\* Appends without -t, then queries from the command line.
NextArgs ==
    \/ \E i \in clock..MaxClock : AddToTsv(i, 0, 0, <<>>, << <<"a">> >>)
    \/ \E i \in clock..MaxClock, args \in CommandLines : QueryArgs(i, args)
    \/ \E i \in clock..MaxClock : ShowInProgress(i, 0)
    \/ \E editor \in Editors : EditTsv(editor)
    \/ \E new_data \in Kept(fs.data) \cup EditorFiles : EditorSave(new_data)
    \/ EditorQuit
    \/ Exit

SpecArgs == Init /\ [][NextArgs]_vars

----------------------------------------------------------------------------
(* add_to_tsv step by step, while another process may remove the directory *)
(* of the log between two steps                                             *)

\* f"{iso_format}\t{line}\n"
RecordOf(text, at_time) == isoformat(at_time) \o <<TAB>> \o Join(text) \o <<NL>>

\* if attempts > 2: raise ex
GivesUp(attempts) == attempts > MaxRetries

\* The state of a running add_to_tsv: pc is the next step, attempts the
\* local of that name, writes the number of times the write was attempted,
\* record the line to write.
Adding(pc, attempts, writes, record) ==
    [op |-> "adding", pc |-> pc, attempts |-> attempts, writes |-> writes,
     record |-> record]

\* The outcome of add_to_tsv: raised or returned, the data the successful
\* write found in the file.
Added(raised, attempts, writes, record, before) ==
    [op |-> "add", raised |-> raised, attempts |-> attempts, writes |-> writes,
     record |-> record, before |-> before]

\* add_to_tsv(text, path, now): attempts = 0, the line is formatted.
CallAdd(text) ==
    /\ out.op = "idle"
    /\ Len(fs.data) + Len(Encode(RecordOf(text, Now(clock, 0, 0)))) <= MaxLogLen
    /\ out' = Adding("write", 0, 0, RecordOf(text, Now(clock, 0, 0)))
    /\ UNCHANGED <<clock, appended, fs, editors>>

\* return write_accomplishment(), up to open(path, "ta"), and the except
\* clause up to the raise: the file is opened, and made when it is missing,
\* or FileNotFoundError is raised for the missing directory.
OpenTsv ==
    /\ out.op = "adding" /\ out.pc = "write"
    /\ IF fs.dir
       THEN /\ fs' = [fs EXCEPT !.exists = TRUE]
            /\ out' = Adding("opened", out.attempts, out.writes + 1, out.record)
       ELSE /\ fs' = fs
            /\ out' = IF GivesUp(out.attempts + 1)
                      THEN Added(TRUE, out.attempts + 1, out.writes + 1,
                                 out.record, fs.data)
                      ELSE Adding("mkdir", out.attempts + 1, out.writes + 1,
                                  out.record)
    /\ UNCHANGED <<clock, appended, editors>>

\* tsv.write(...), the file closed, and the return.  The record goes to
\* the end of the file that was opened; when the directory was removed
\* since, that file is no longer at the path and nothing is raised.
WriteTsv ==
    /\ out.op = "adding" /\ out.pc = "opened"
    /\ fs' = IF fs.exists
             THEN [fs EXCEPT !.data = fs.data \o Encode(out.record)]
             ELSE fs
    /\ out' = Added(FALSE, out.attempts, out.writes, out.record, fs.data)
    /\ UNCHANGED <<clock, appended, editors>>

\* path.parent.mkdir(parents=True, exist_ok=True)
MakeDirs ==
    /\ out.op = "adding" /\ out.pc = "mkdir"
    /\ fs' = [fs EXCEPT !.dir = TRUE]
    /\ out' = [out EXCEPT !.pc = "touch"]
    /\ UNCHANGED <<clock, appended, editors>>

\* path.touch(S_IRWXU, exist_ok=True); it raises FileNotFoundError itself,
\* inside the handler, when the directory is missing again.
Touch ==
    /\ out.op = "adding" /\ out.pc = "touch"
    /\ IF fs.dir
       THEN /\ fs' = [fs EXCEPT !.exists = TRUE]
            /\ out' = [out EXCEPT !.pc = "write"]
       ELSE /\ fs' = fs
            /\ out' = Added(TRUE, out.attempts, out.writes, out.record, fs.data)
    /\ UNCHANGED <<clock, appended, editors>>

\* One step of the running add_to_tsv.
AddStep == OpenTsv \/ WriteTsv \/ MakeDirs \/ Touch

\* Another process removes the directory of the log while add_to_tsv runs.
RemoveDir ==
    /\ out.op = "adding"
    /\ fs.dir
    /\ fs' = [dir |-> FALSE, exists |-> FALSE, data |-> <<>>]
    /\ UNCHANGED <<clock, appended, out, editors>>

\* The texts of the appends: those of Texts and one with a line break in
\* it.
AddTexts == Texts \cup {<< <<"a", NL, "b">> >>}

NextAdd ==
    \/ \E text \in AddTexts : CallAdd(text)
    \/ AddStep
    \/ RemoveDir
    \/ Exit

\* The interpreter runs add_to_tsv on: a step that can be taken is taken.
SpecAdd == Init /\ [][NextAdd]_vars /\ WF_vars(AddStep)

----------------------------------------------------------------------------
(* The reverse line reader on its own, over every small file *)

ReaderChars == {"a", "b", EAcute, NL}

ReaderTexts == UNION {[1..n -> ReaderChars] : n \in 0..MaxFileLen}

ReaderFiles == {Encode(text) : text \in ReaderTexts}

InitReader ==
    /\ clock = 0
    /\ appended = NotAppended
    /\ fs \in {[dir |-> TRUE, exists |-> TRUE, data |-> d] : d \in ReaderFiles}
    /\ out = Idle
    /\ editors = 0

\* list(reverse_readline(path, buf_size))
ReadLines(buf_size) ==
    /\ out.op = "idle"
    /\ out' = [op |-> "lines", buf_size |-> buf_size,
               res |-> reverse_readline(fs.data, buf_size)]
    /\ UNCHANGED <<clock, appended, fs, editors>>

NextReader ==
    \/ \E buf_size \in (1..(2 * MaxFileLen)) \cup {DefaultBufSize} :
          (buf_size <= Len(fs.data) \/ buf_size = DefaultBufSize) /\ ReadLines(buf_size)
    \/ Exit

SpecReader == InitReader /\ [][NextReader]_vars

----------------------------------------------------------------------------
(* The date expressions on their own: parse_dow, get_last_dow and
   parse_yyyy_mm_dd applied to a text and a reference date *)

MaxCount == 3

\* The days of the week, alone and with a count after them.
DowTexts ==
    {dow_locale[i] \o count :
        i \in 1..7, count \in {<<>>} \cup {Str(n) : n \in 0..MaxCount}}
    \cup {<<"M", "o", "n">>, <<"m", "o", "n", "d">>}

\* The texts of a month and a day, with and without the dash, and one
\* with a month the expression does not accept.
MonthDayTexts ==
    {<<"0", "4", "0", "1">>, <<"0", "8", "0", "1">>, <<"0", "6", "0", "1">>,
     <<"0", "6", "-", "0", "1">>, <<"0", "2", "2", "8">>, <<"0", "2", "2", "9">>,
     <<"0", "2", "-", "2", "9">>, <<"0", "2", "3", "0">>, <<"0", "3", "0", "1">>,
     <<"0", "4", "3", "1">>, <<"1", "2", "3", "1">>, <<"0", "1", "0", "1">>,
     <<"1", "3", "0", "1">>}

\* Days ago and the named days.
OtherTexts ==
    {<<"1">>, <<"t", "o", "d", "a", "y">>,
     <<"y", "e", "s", "t", "e", "r", "d", "a", "y">>}

\* What date.today() gives when text_to_date is called.
SystemDates == {Ordinal(2020, 2, 26), Ordinal(2020, 2, 28), Ordinal(2026, 10, 30)}

\* The reference dates: a week around the leap day of 2020, days of other
\* years, and the first days of the calendar.
RefDates ==
    {Ordinal(2020, 2, 26) + k : k \in 0..6}
    \cup {Ordinal(2020, 6, 1), Ordinal(2021, 3, 1), Ordinal(2020, 1, 1),
          Ordinal(2019, 12, 31), Ordinal(MINYEAR, 1, 3), Ordinal(MINYEAR, 6, 1)}

\* A text and a reference date are given.
Given(text, relative) == [op |-> "given", text |-> text, relative |-> relative]

InitDates ==
    /\ clock = 0
    /\ appended = NotAppended
    /\ fs = [dir |-> FALSE, exists |-> FALSE, data |-> <<>>]
    /\ out \in {Given(text, relative) :
                    text \in DowTexts \cup MonthDayTexts \cup OtherTexts,
                    relative \in RefDates}
    /\ editors = 0

\* parse_dow(text, relative)
ParseDow ==
    /\ out.op = "given"
    /\ out' = [op |-> "parse_dow", text |-> out.text, relative |-> out.relative,
               res |-> parse_dow(out.text, out.relative)]
    /\ UNCHANGED <<clock, appended, fs, editors>>

\* parse_yyyy_mm_dd(text, relative)
ParseYmd ==
    /\ out.op = "given"
    /\ out' = [op |-> "parse_yyyy_mm_dd", text |-> out.text, relative |-> out.relative,
               res |-> parse_yyyy_mm_dd(out.text, out.relative)]
    /\ UNCHANGED <<clock, appended, fs, editors>>

\* get_last_dow(look_for, relative) for two days of the week
GetLastDow(look_for, relative) ==
    /\ out.op = "given"
    /\ out' = [op |-> "get_last_dow", look_for |-> look_for, relative |-> relative,
               res |-> get_last_dow(look_for, relative)]
    /\ UNCHANGED <<clock, appended, fs, editors>>

\* text_to_date(text, relative) on a day when date.today() is today_is
TextToDate(today_is) ==
    /\ out.op = "given"
    /\ out' = [op |-> "text_to_date", text |-> out.text, relative |-> out.relative,
               today |-> today_is,
               res |-> text_to_date(out.text, [some |-> TRUE, val |-> out.relative],
                                    today_is)]
    /\ UNCHANGED <<clock, appended, fs, editors>>

NextDates ==
    \/ ParseDow
    \/ ParseYmd
    \/ \E today_is \in SystemDates : TextToDate(today_is)
    \/ \E look_for \in 0..6, relative \in 0..6 : GetLastDow(look_for, relative)

SpecDates == InitDates /\ [][NextDates]_vars

----------------------------------------------------------------------------
(* Properties *)

\* The text of a file: its bytes decoded from the first one on.
Decode(data) == Read(data, 1, Len(data)).text

\* The lines of a file in file order: the pieces of its text between line
\* breaks, the last line with or without its line break.
FileLines(data) ==
    LET parts == Split(Decode(data), NL)
    IN  IF parts[Len(parts)] = <<>> THEN SubSeq(parts, 1, Len(parts) - 1) ELSE parts

Reverse(s) == [k \in 1..Len(s) |-> s[Len(s) + 1 - k]]

\* The file is made of non-empty lines.
NonEmptyLines == \A k \in 1..Len(FileLines(fs.data)) : FileLines(fs.data)[k] # <<>>

\* C1: reverse_readline of a file of N non-empty lines, with or without a
\* final line break, yields exactly those lines, whole and unmodified, in
\* reverse file order, for every buf_size from 1 up to the file size.
C1_ReverseOrder ==
    (out.op = "lines" /\ NonEmptyLines)
    => out.res = [raised |-> FALSE, lines |-> Reverse(FileLines(fs.data))]

\* The same for the files of one-byte characters: there the position of a
\* chunk in bytes and its length in characters agree.
ReverseOrderOneByte ==
    (/\ out.op = "lines"
     /\ NonEmptyLines
     /\ \A k \in 1..Len(fs.data) : fs.data[k] \notin {LeadByte, ContByte})
    => out.res = [raised |-> FALSE, lines |-> Reverse(FileLines(fs.data))]

\* A file of two lines of one-byte characters read with a buffer of two: one
\* chunk boundary falls inside the first line and one right after a line
\* break.
ReverseOrderOneByteWitness ==
    /\ out.op = "lines"
    /\ fs.data = <<"a", "b", NL, "b", NL>>
    /\ out.buf_size = 2
    /\ out.res = [raised |-> FALSE, lines |-> << <<"b">>, <<"a", "b">> >>]

----------------------------------------------------------------------------
(* Properties of the entry reconstruction.  They read a line of the log as  *)
(* add_to_tsv writes it: three timestamp digits, a tab, the text.           *)

\* The lines of the log in file order.
Stored == FileLines(fs.data)

\* The lines of the log as reverse_readline yields them, the newest first.
Source == reverse_readline(fs.data, DefaultBufSize).lines

\* The timestamp of a line: its first three characters read as one.
StampOf(line) == fromisoformat(SubSeq(line, 1, Min(3, Len(line)))).val

\* The line begins with a timestamp and a character after it.
IsStamped(line) == Len(line) >= 4 /\ ~fromisoformat(SubSeq(line, 1, 3)).err

TextOf(line) == SubSeq(line, 5, Len(line))

HasStartText(text) ==
    /\ Len(text) >= Len(default_start_text)
    /\ \A k \in 1..Len(default_start_text) : text[k] = default_start_text[k]

IsMarkerLine(line) == HasStartText(TextOf(line))

\* The entry that the k-th line of the file (k >= 2) stands for.
EntryOfLine(k) == Entry(StampOf(Stored[k - 1]), StampOf(Stored[k]), TextOf(Stored[k]))

\* The calendar day d is inside one of the ranges.
Covered(d, ranges) == \E k \in 1..Len(ranges) : ranges[k].begin <= d /\ d <= ranges[k].close

\* A query has returned a list of entries.
Returned == out.op = "query" /\ out.res.raised = ""

\* C2: every returned entry comes from a line that is not the first line of
\* the file; its begin is the timestamp of the line stored immediately
\* before its own line, its cease and text are those of its own line; the
\* oldest line is never returned.
C2_BeginFromPreviousLine ==
    Returned =>
        /\ \A j \in 1..Len(out.res.matching) :
              \E k \in 2..Len(Stored) :
                  /\ IsStamped(Stored[k - 1])
                  /\ out.res.matching[j] = EntryOfLine(k)
        /\ \A p \in out.res.emitted : p < Len(Source)

\* The entry that the p-th line of the source stands for: its begin is the
\* timestamp of the line yielded after it.
EntryOfSource(p) == Entry(StampOf(Source[p + 1]), StampOf(Source[p]), TextOf(Source[p]))

\* What the code keeps: each returned entry is made from one line that the
\* reader yielded, never the last one, and its begin is the timestamp of the
\* line yielded next, which is the nearest line stored before it that is
\* not empty.
BeginFromLineReadNext ==
    Returned =>
        LET res == out.res
        IN  /\ Len(res.matching) = Cardinality(res.emitted)
            /\ \A p \in res.emitted : p \in 1..(Len(Source) - 1)
            /\ \A j \in 1..Len(res.matching) :
                  \E p \in res.emitted : res.matching[j] = EntryOfSource(p)
            /\ \A p \in res.emitted :
                  \E j \in 1..Len(res.matching) : res.matching[j] = EntryOfSource(p)

\* A text that ends with a line break was appended and a line after it: the
\* line stored immediately before the newest one is empty, and the entry of
\* the newest line is returned with the timestamp of the first line as its
\* begin.
EmptyLineBeforeWitness ==
    /\ Returned
    /\ Len(Stored) = 3
    /\ Stored[2] = <<>>
    /\ out.res.matching =
          <<Entry(StampOf(Stored[1]), StampOf(Stored[3]), TextOf(Stored[3]))>>
    /\ StampOf(Stored[1]) # StampOf(Stored[3])

\* A log of three lines with three different timestamps from which two
\* entries are returned.
ThreeLinesTwoEntriesWitness ==
    /\ Returned
    /\ Len(Stored) = 3
    /\ Len(out.res.matching) = 2
    /\ StampOf(Stored[1]) # StampOf(Stored[2])
    /\ StampOf(Stored[2]) # StampOf(Stored[3])

\* C3: with a non-empty set of ranges, the calendar date of the begin of
\* every returned entry is inside at least one range.
C3_BeginInRange ==
    (Returned /\ Len(out.ranges) > 0) =>
        \A j \in 1..Len(out.res.matching) :
            Covered(out.res.matching[j].begin.date, out.ranges)

\* An entry is returned whose begin is inside a range while its cease is
\* inside none, next to a line that is left out.
C3_Witness ==
    /\ Returned
    /\ Len(Stored) = 3
    /\ Len(out.res.matching) = 1
    /\ ~Covered(out.res.matching[1].cease.date, out.ranges)
    /\ out.filters = <<AcceptAll>>

\* C5: no returned entry has a marker line as its source line, wherever the
\* marker is in the log.
C5_NoMarkerEntry ==
    Returned =>
        /\ \A j \in 1..Len(out.res.matching) : ~HasStartText(out.res.matching[j].text)
        /\ \A p \in out.res.emitted : ~IsMarkerLine(Source[p])

\* A marker line is the newest line of the log, the line before it has been
\* read and is dated inside a range, and the filters accept the marker text.
C5_Witness ==
    /\ Returned
    /\ Len(Stored) = 3
    /\ IsMarkerLine(Stored[3])
    /\ out.res.pulled >= 2
    /\ Covered(StampOf(Stored[2]).date, out.ranges)
    /\ \A k \in 1..Len(out.filters) : Accepts(out.filters[k], TextOf(Stored[3]))
    /\ Len(out.res.matching) = 1

\* C4: over every log that add_to_tsv can produce, appends with -t WHEN
\* included, every returned entry has cease >= begin.
C4_DurationNotNegative ==
    Returned =>
        \A j \in 1..Len(out.res.matching) :
            Key(out.res.matching[j].cease) >= Key(out.res.matching[j].begin)

\* C6 as stated: no returned entry has the timestamp of a marker line as
\* its begin.
C6_NoBeginFromMarker ==
    Returned =>
        \A j \in 1..Len(out.res.matching) : \A k \in 1..Len(Stored) :
            IsMarkerLine(Stored[k]) => out.res.matching[j].begin # StampOf(Stored[k])

\* C6 as amended: the chain is broken on the older side of a marker only.
\* In a query that returns, a marker line that the pass reads is never
\* returned itself; the line read just before it, when that is no marker,
\* is the pending entry: it takes the marker's timestamp as its begin and is
\* considered for emission, returned exactly when the marker's date is
\* inside a range and the filters accept its text.
C6_MarkerGivesBegin ==
    Returned =>
        \A p \in 1..out.res.pulled :
            IsMarkerLine(Source[p]) =>
                /\ p \notin out.res.emitted
                /\ (p > 1 /\ ~IsMarkerLine(Source[p - 1])) =>
                      /\ (p - 1) \in out.res.emitted
                            <=> /\ Covered(StampOf(Source[p]).date, out.ranges)
                                /\ \A f \in 1..Len(out.filters) :
                                      Accepts(out.filters[f], TextOf(Source[p - 1]))
                      /\ (p - 1) \in out.res.emitted =>
                            \E j \in 1..Len(out.res.matching) :
                                out.res.matching[j] = EntryOfSource(p - 1)

\* The line stored right after a marker is returned with the marker's
\* timestamp, which differs from its own, as its begin.
C6_Witness ==
    /\ Returned
    /\ Len(Stored) = 3
    /\ IsMarkerLine(Stored[2])
    /\ ~IsMarkerLine(Stored[3])
    /\ StampOf(Stored[2]) # StampOf(Stored[3])
    /\ Len(out.res.matching) = 1
    /\ out.res.matching[1] = EntryOfLine(3)

\* The for loop of get_entries without the early stop, over every line.
RECURSIVE FullPass(_, _, _, _, _, _)
FullPass(lines, i, ranges, filters, last_entry, matching) ==
    IF i > Len(lines) THEN matching
    ELSE LET entry == from_tsv(lines[i]).val
             last == SetBegin(last_entry.val, entry)
         IN  FullPass(lines, i + 1, ranges, filters, Pending(entry, i),
                      IF last_entry.some /\ Matches(last, ranges, filters)
                      THEN Append(matching, last) ELSE matching)

\* Every line of the log has a timestamp, and the timestamps do not
\* decrease in file order.
NonDecreasing ==
    /\ \A k \in 1..Len(Stored) : IsStamped(Stored[k])
    /\ \A k \in 1..(Len(Stored) - 1) : Key(StampOf(Stored[k])) <= Key(StampOf(Stored[k + 1]))

\* C7: for a log whose timestamps do not decrease in file order and a
\* non-empty set of ranges, get_entries returns the same list as the pass
\* without the early stop over every line of the log.
C7_EarlyStopLosesNothing ==
    (Returned /\ Len(out.ranges) > 0 /\ NonDecreasing) =>
        out.res.matching =
            SortEntries(FullPass(Reverse(Stored), 1, SortRanges(out.ranges),
                                 out.filters, NoEntry, <<>>))

\* An append of a non-marker text dated today to a log that held a line has
\* been followed by a query without a text filter.
AppendedThenQueried ==
    /\ out.op = "query"
    /\ appended.some
    /\ appended.earlier
    /\ ~HasStartText(appended.text)
    /\ appended.at.date = appended.today
    /\ out.filters = <<AcceptAll>>

\* The query returned an entry with the appended timestamp and text.
HasAppended ==
    /\ out.res.raised = ""
    /\ \E j \in 1..Len(out.res.matching) :
          /\ out.res.matching[j].cease = appended.at
          /\ out.res.matching[j].text = appended.text

\* C8: after the append of a record with timestamp t, dated today, and
\* non-marker text x to a log that held a line, the query that follows,
\* with a range covering today and no text filter, returns an entry whose
\* cease is t and whose text is x.
C8_RoundTrip ==
    (AppendedThenQueried /\ Covered(appended.today, out.ranges)) => HasAppended

\* The text has no line break.
NoLineBreak(text) == \A k \in 1..Len(text) : text[k] # NL

\* What the code keeps of the round trip: when the text has no line break,
\* the query returns and its ranges cover also the date of the line read
\* after the record (the begin of its entry), the entry of the record is
\* returned.
RoundTripWhenReturned ==
    (/\ AppendedThenQueried
     /\ Covered(appended.today, out.ranges)
     /\ Returned
     /\ NoLineBreak(appended.text)
     /\ Len(Source) >= 2
     /\ Covered(StampOf(Source[2]).date, out.ranges)) => HasAppended

\* The record was appended the day after the line before it, and both days
\* are covered: the entry of the record is returned.
RoundTripWitness ==
    /\ AppendedThenQueried
    /\ Covered(appended.today, out.ranges)
    /\ Len(Source) >= 2
    /\ StampOf(Source[2]).date < appended.today
    /\ Covered(StampOf(Source[2]).date, out.ranges)
    /\ HasAppended

\* The record was appended to a log whose last line had no line break: the
\* two are one line of three fields, and the query raises ValueError.
MergedLineWitness ==
    /\ AppendedThenQueried
    /\ Covered(appended.today, out.ranges)
    /\ Len(Stored) = 1
    /\ Len(Split(Stored[1], TAB)) = 3
    /\ out.res.raised = "ValueError"

\* The appended text ends with a line break: the query returns the entry
\* of the record with the text cut before the line break.
LineBreakCutWitness ==
    /\ AppendedThenQueried
    /\ Covered(appended.today, out.ranges)
    /\ Returned
    /\ ~NoLineBreak(appended.text)
    /\ \E j \in 1..Len(out.res.matching) :
          /\ out.res.matching[j].cease = appended.at
          /\ out.res.matching[j].text \o <<NL>> = appended.text

\* The line before the record is dated yesterday and the range is today
\* alone: the query returns and the entry of the record is not in it.
BeginNotCoveredWitness ==
    /\ AppendedThenQueried
    /\ Covered(appended.today, out.ranges)
    /\ Returned
    /\ NoLineBreak(appended.text)
    /\ Len(Source) >= 2
    /\ ~Covered(StampOf(Source[2]).date, out.ranges)
    /\ ~HasAppended

\* C9: with no date range, get_entries returns an empty list, pulls no line
\* and never opens the file, whatever the filters and the state of the file.
C9_NoRangesNoIO ==
    (out.op = "query" /\ Len(out.ranges) = 0) =>
        /\ out.res.raised = ""
        /\ out.res.matching = <<>>
        /\ out.res.pulled = 0
        /\ ~out.res.opened

\* A query without ranges against a missing path.
C9_Witness ==
    /\ out.op = "query"
    /\ Len(out.ranges) = 0
    /\ ~fs.exists
    /\ out.res.matching = <<>>

\* C10 as stated: a query with ranges against a missing path returns no
\* entry and raises no error, like a query against an empty file.
C10_MissingLikeEmpty ==
    (out.op = "query" /\ Len(out.ranges) > 0 /\ ~fs.exists) =>
        /\ out.res.raised = ""
        /\ out.res.matching = <<>>

\* C10 as amended: a query with ranges against a missing path raises
\* FileNotFoundError at the first pull and returns nothing; against an
\* empty file it returns zero entries and raises no error.
C10_MissingRaises ==
    (out.op = "query" /\ Len(out.ranges) > 0) =>
        /\ ~fs.exists =>
              /\ out.res.raised = "FileNotFoundError"
              /\ out.res.pulled = 0
              /\ out.res.matching = <<>>
        /\ (fs.exists /\ fs.data = <<>>) =>
              /\ out.res.raised = ""
              /\ out.res.matching = <<>>

\* A query with ranges against a missing path has raised.
C10_Witness ==
    /\ out.op = "query"
    /\ Len(out.ranges) > 0
    /\ ~fs.exists
    /\ out.res.raised = "FileNotFoundError"

----------------------------------------------------------------------------
(* Properties of add_to_tsv step by step *)

\* While add_to_tsv runs and when it is over: the write was attempted at
\* most three times; a return has written the record after what the file
\* held; a raise has written nothing, and a raise from the write comes with
\* its third failure.
BoundedRetry ==
    (out.op \in {"adding", "add"}) =>
        /\ out.writes <= MaxRetries + 1
        /\ out.attempts <= out.writes
        /\ (out.op = "add" /\ ~out.raised) =>
              IF fs.exists THEN fs.data = out.before \o Encode(out.record)
              ELSE ~fs.dir /\ fs.data = <<>> /\ out.before = <<>>
        /\ (out.op = "add" /\ out.raised) =>
              /\ fs.data = out.before
              /\ GivesUp(out.attempts) => out.writes = MaxRetries + 1

\* A return has written exactly one line to the file at the path.
OneLineWritten ==
    (out.op = "add" /\ ~out.raised /\ fs.exists) =>
        Len(FileLines(fs.data)) = Len(FileLines(out.before)) + 1

\* A step that leaves add_to_tsv running is the next one of: file opened,
\* or failed write, directories made, file made, write again.
HandlerOrder ==
    (out.op = "adding" /\ out'.op = "adding" /\ out' # out) =>
        /\ <<out.pc, out'.pc>> \in {<<"write", "opened">>, <<"write", "mkdir">>,
                                    <<"mkdir", "touch">>, <<"touch", "write">>}
        /\ out'.pc = "opened" => fs'.exists
        /\ out.pc = "mkdir" => fs'.dir
        /\ out.pc = "touch" => fs'.exists

\* The write has raised FileNotFoundError and the handler goes on.
WriteFailed == out.op = "adding" /\ out.pc = "mkdir"

\* The write is attempted.
WriteTried == out.op = "adding" /\ out.pc = "write"

\* C11: add_to_tsv on a missing path always terminates: each
\* FileNotFoundError of the write is followed by making the directories and
\* the file and a retry, the write is attempted at most three times, the
\* error of the last attempt is propagated, and a successful attempt returns
\* after writing exactly one line.
C11_RetryTerminates ==
    /\ []BoundedRetry
    /\ []OneLineWritten
    /\ [][HandlerOrder]_vars
    /\ WriteFailed ~> WriteTried
    /\ (out.op = "adding") ~> (out.op = "add")

\* What the code keeps: the write is attempted at most three times, the
\* steps of the handler come in their order, a return has written the
\* record and a raise nothing, and every call ends.
AddTerminates ==
    /\ []BoundedRetry
    /\ [][HandlerOrder]_vars
    /\ (out.op = "adding") ~> (out.op = "add")

\* The path was missing and the text has a line break: the second attempt
\* wrote two lines.
TwoLinesRetriedWitness ==
    /\ out.op = "add"
    /\ ~out.raised
    /\ out.writes = 2
    /\ out.before = <<>>
    /\ fs.data = Encode(out.record)
    /\ Len(FileLines(fs.data)) = 2

\* The directory was removed between mkdir and touch: touch raised
\* FileNotFoundError inside the handler and the call ended after one
\* attempt, without a retry.
TouchRaisedWitness ==
    /\ out.op = "add"
    /\ out.raised
    /\ out.writes = 1
    /\ out.attempts = 1

\* The directory was removed before each of the three attempts: the third
\* FileNotFoundError of the write was propagated.
ThirdFailureWitness ==
    /\ out.op = "add"
    /\ out.raised
    /\ out.writes = MaxRetries + 1
    /\ out.attempts = MaxRetries + 1

\* The path was missing and the second attempt wrote the line.
RetriedOnce ==
    /\ out.op = "add"
    /\ ~out.raised
    /\ out.writes = 2
    /\ out.before = <<>>
    /\ fs.data = Encode(out.record)

\* The directory was removed between the opening of the file and the
\* write: the call returned and the record is not at the path.
LostWriteWitness ==
    /\ out.op = "add"
    /\ ~out.raised
    /\ ~fs.exists
    /\ fs.data = <<>>

----------------------------------------------------------------------------
(* Properties of the queries from the command line *)

\* The DATE texts of the -d arguments of a command line, in order.
RECURSIVE ItemsOf(_)
ItemsOf(args_date) ==
    IF args_date = <<>> THEN <<>>
    ELSE Split(Head(args_date), ",") \o ItemsOf(Tail(args_date))

\* text_to_date gives None for the text: it has none of the forms.
Unresolvable(text, today_is) ==
    text_to_date(text, [some |-> FALSE, val |-> 0], today_is).is = "none"

\* The date the text resolves to.
Resolved(text, today_is) == text_to_date(text, [some |-> FALSE, val |-> 0], today_is)

\* The unresolvable texts of a command line: -d items, -r starts, and -r
\* ends (an end of digits is a number of days, never a date expression).
Offending(args, today_is) ==
    {t \in {ItemsOf(args.date)[k] : k \in 1..Len(ItemsOf(args.date))}
           \cup {args.range[k][1] : k \in 1..Len(args.range)}
           \cup {args.range[k][2] : k \in 1..Len(args.range)} :
        Unresolvable(t, today_is)}

\* The query was aborted with an exception that names one of the texts,
\* with no line pulled and the log not opened.
AbortedNaming(texts) ==
    /\ out.res.raised = "Exception"
    /\ out.parsed.raised = "Exception"
    /\ \E t \in texts : Search(<<Quote>> \o t, out.parsed.message)
    /\ out.res.pulled = 0
    /\ ~out.res.opened

\* C12: an unresolvable date expression given as a -d item or as either
\* argument of -r is surfaced as an error naming the offending text, the
\* query aborts before any log line is read; it is never silently dropped.
C12_UnresolvableSurfaced ==
    (out.op = "args" /\ Offending(out.args, out.today) # {})
    => AbortedNaming(Offending(out.args, out.today))

\* The same for the arguments of a single -r pair: an unresolvable start, or
\* an unresolvable end after a start with a date.
RangeUnresolvableSurfaced ==
    (/\ out.op = "args"
     /\ out.args.date = <<>> /\ Len(out.args.range) = 1
     /\ \/ Unresolvable(out.args.range[1][1], out.today)
        \/ /\ Resolved(out.args.range[1][1], out.today).is = "date"
           /\ Unresolvable(out.args.range[1][2], out.today))
    => AbortedNaming(Offending(out.args, out.today))

\* A query with -r x 2 on a log with a line was aborted.
RangeUnresolvableWitness ==
    /\ out.op = "args"
    /\ out.args.date = <<>>
    /\ out.args.range = << <<(<<"x">>), (<<"2">>)>> >>
    /\ fs.data # <<>>
    /\ AbortedNaming({<<"x">>})

\* A command line of one -r pair and no -d whose start has a date.
OneRange ==
    /\ out.op = "args"
    /\ out.args.date = <<>>
    /\ Len(out.args.range) = 1
    /\ Resolved(out.args.range[1][1], out.today).is = "date"

RangeStart == Resolved(out.args.range[1][1], out.today).val
RangeEnd == out.args.range[1][2]

\* END is an integer in 1..999: the range begins at the date of START and
\* has END days.
CountGivesDays ==
    (IsNumeric(RangeEnd) /\ ParseInt(RangeEnd) \in 1..999) =>
        /\ out.parsed = Ranges(<<DateRange(RangeStart, RangeStart + ParseInt(RangeEnd) - 1)>>)
        /\ Days(out.parsed.ranges[1]) = ParseInt(RangeEnd)

\* C13 as stated: for -r START END, END an integer in 1..999 gives the
\* range of END days from the date of START; every other END text is an
\* explicit end date: close is the date text_to_date resolves END to.
C13_EndCountOrDate ==
    OneRange =>
        /\ CountGivesDays
        /\ (/\ ~(IsNumeric(RangeEnd) /\ ParseInt(RangeEnd) \in 1..999)
            /\ Resolved(RangeEnd, out.today).is = "date"
            /\ Resolved(RangeEnd, out.today).val >= RangeStart) =>
              out.parsed = Ranges(<<DateRange(RangeStart, Resolved(RangeEnd, out.today).val)>>)

\* C13 as amended: END an integer in 1..999 gives the range of END days
\* from the date of START; an END that is not all digits is an explicit end
\* date, resolved by text_to_date; an END of digits is always a number of
\* days, and is rejected when it is 0 or more than 999.
C13_EndDigitsAreCount ==
    OneRange =>
        /\ CountGivesDays
        /\ (/\ ~IsNumeric(RangeEnd)
            /\ Resolved(RangeEnd, out.today).is = "date"
            /\ Resolved(RangeEnd, out.today).val >= RangeStart) =>
              out.parsed = Ranges(<<DateRange(RangeStart, Resolved(RangeEnd, out.today).val)>>)
        /\ (IsNumeric(RangeEnd) /\ ParseInt(RangeEnd) \notin 1..999) =>
              /\ out.parsed.raised = "Exception"
              /\ out.parsed.ranges = <<>>

\* -r 2019-01-01 999 gave the 999 days from 2019-01-01.
C13_Witness ==
    /\ OneRange
    /\ RangeEnd = <<"9", "9", "9">>
    /\ out.parsed = Ranges(<<DateRange(Ordinal(2019, 1, 1), Ordinal(2019, 1, 1) + 998)>>)

\* -r 1 today gave the range from yesterday to today.
EndDateWitness ==
    /\ OneRange
    /\ RangeEnd = <<"t", "o", "d", "a", "y">>
    /\ out.parsed = Ranges(<<DateRange(out.today - 1, out.today)>>)

\* The k-th -r pair has a start with a date and is invalid for its count:
\* an END of digits worth 0, or worth 1000 or more.
NoDays(k) ==
    /\ Resolved(out.args.range[k][1], out.today).is = "date"
    /\ IsNumeric(out.args.range[k][2]) /\ ParseInt(out.args.range[k][2]) <= 0

TooManyDays(k) ==
    /\ Resolved(out.args.range[k][1], out.today).is = "date"
    /\ IsNumeric(out.args.range[k][2]) /\ ParseInt(out.args.range[k][2]) >= 1000

\* The k-th -r pair resolves to a close earlier than its begin.
Reversed(k) ==
    /\ Resolved(out.args.range[k][1], out.today).is = "date"
    /\ ~IsNumeric(out.args.range[k][2])
    /\ Resolved(out.args.range[k][2], out.today).is = "date"
    /\ Resolved(out.args.range[k][2], out.today).val
         < Resolved(out.args.range[k][1], out.today).val

\* C14: parse_date_ranges rejects an invalid -r request with an error and
\* returns no range at all: a day count <= 0, a day count >= 1000 (message
\* "must be less than 1000"), or a close earlier than the begin (message
\* with "Did you mean '-r <earlier> <later>'").
C14_InvalidRangeRejected ==
    (out.op = "args") =>
        \A k \in 1..Len(out.args.range) :
            (NoDays(k) \/ TooManyDays(k) \/ Reversed(k)) =>
                /\ out.parsed.raised # ""
                /\ out.parsed.ranges = <<>>
                /\ (k = 1 /\ out.args.date = <<>>) =>
                      /\ out.parsed.raised = "Exception"
                      /\ TooManyDays(k) => Search(MustBeLess, out.parsed.message)
                      /\ Reversed(k) =>
                            Search(DidYouMean
                                   \o StrDate(Resolved(out.args.range[k][2], out.today).val)
                                   \o <<SP>>
                                   \o StrDate(Resolved(out.args.range[k][1], out.today).val)
                                   \o <<Quote>>,
                                   out.parsed.message)

\* -d 0 -r 1 2 -r today yesterday: the second pair is reversed and nothing
\* is returned, not even the ranges read before it.
C14_Witness ==
    /\ out.op = "args"
    /\ out.args.date = << <<"0">> >>
    /\ Len(out.args.range) = 2
    /\ ~Reversed(1) /\ ~NoDays(1) /\ Reversed(2)
    /\ out.parsed.raised = "Exception"
    /\ Search(DidYouMean, out.parsed.message)
    /\ out.parsed.ranges = <<>>

\* -r 1 1000 and -r 1 0 were rejected.
CountRejectedWitness ==
    /\ out.op = "args"
    /\ out.args.date = <<>> /\ Len(out.args.range) = 1
    /\ TooManyDays(1)
    /\ Search(MustBeLess, out.parsed.message)

\* How many times x occurs in the sequence.
RECURSIVE CountOf(_, _)
CountOf(seq, x) ==
    IF seq = <<>> THEN 0
    ELSE (IF Head(seq) = x THEN 1 ELSE 0) + CountOf(Tail(seq), x)

\* One range of one day for each -d item with a date, in the order of the
\* items.
RECURSIVE OneDayRanges(_, _)
OneDayRanges(items, today_is) ==
    IF items = <<>> THEN <<>>
    ELSE (IF Resolved(Head(items), today_is).is = "date"
          THEN <<DateRange(Resolved(Head(items), today_is).val,
                           Resolved(Head(items), today_is).val)>>
          ELSE <<>>)
         \o OneDayRanges(Tail(items), today_is)

\* The range of each -r pair, in the order of the pairs.
RECURSIVE PairRanges(_, _)
PairRanges(pairs, today_is) ==
    IF pairs = <<>> THEN <<>>
    ELSE RangeOf(Head(pairs)[1], Head(pairs)[2], today_is).ranges
         \o PairRanges(Tail(pairs), today_is)

\* C15: every tuple parse_date_ranges returns has begin <= close and
\* days = (close - begin) + 1 >= 1 in each range, exactly one range of one
\* day for each resolved -d item, the ranges in ascending order of begin,
\* and equal or overlapping ranges kept.
C15_RangesWellFormed ==
    (out.op = "args" /\ out.parsed.raised = "") =>
        LET ranges == out.parsed.ranges
            given == OneDayRanges(ItemsOf(out.args.date), out.today)
                     \o PairRanges(out.args.range, out.today)
        IN  /\ \A k \in 1..Len(ranges) :
                  /\ ranges[k].begin <= ranges[k].close
                  /\ Days(ranges[k]) = (ranges[k].close - ranges[k].begin) + 1
                  /\ Days(ranges[k]) >= 1
            /\ \A k \in 1..(Len(ranges) - 1) : ranges[k].begin <= ranges[k + 1].begin
            /\ Len(ranges) = Len(given)
            /\ \A k \in 1..Len(given) : CountOf(ranges, given[k]) = CountOf(given, given[k])

\* -d 0 -d 1: today was given first and comes last.
C15_Witness ==
    /\ out.op = "args"
    /\ out.args.date = << <<"0">>, <<"1">> >>
    /\ out.parsed = Ranges(<<DateRange(out.today - 1, out.today - 1),
                              DateRange(out.today, out.today)>>)

\* -d 0,today: the same day twice gives the same range twice; -d 0 with
\* -r 1 2: a day inside a range is kept next to the range.
DuplicatesKeptWitness ==
    /\ out.op = "args"
    /\ out.args.date = << <<"0", ",", "t", "o", "d", "a", "y">> >>
    /\ out.parsed = Ranges(<<DateRange(out.today, out.today),
                              DateRange(out.today, out.today)>>)

\* The count written after the day of the week, 0 when there is none, and
\* m = max(1, n).
CountGiven == IF MatchDow(Lower(out.text)).count = <<>> THEN 0
              ELSE ParseInt(MatchDow(Lower(out.text)).count)

WeeksBack == IF CountGiven > 1 THEN CountGiven ELSE 1

\* The result is a date whose day of the week is the one named, d days
\* before the reference date with 7 * (m - 1) < d <= 7 * m.
DowResolved ==
    /\ out.res.is = "date"
    /\ weekday(out.res.val) = MatchDow(Lower(out.text)).index
    /\ out.relative - out.res.val > 7 * (WeeksBack - 1)
    /\ out.relative - out.res.val <= 7 * WeeksBack

\* get_last_dow gives a value in 1..7 for every pair of days of the week.
LastDowInWeek == (out.op = "get_last_dow") => out.res \in 1..7

\* C16 as stated: parse_dow with a day of the week W and an optional
\* count n returns, for every reference date, a date whose day of the week
\* is W and which lies d days before the reference date with
\* 7 * (m - 1) < d <= 7 * m, m = max(1, n); get_last_dow is in 1..7.
C16_DowResolves ==
    /\ LastDowInWeek
    /\ (out.op = "parse_dow" /\ MatchDow(Lower(out.text)).matched) => DowResolved

\* C16, amended: the same when the date 7 * m days before the reference
\* date is in the calendar; when the day looked for is before date.min,
\* parse_dow raises OverflowError.
C16_DowResolvesInCalendar ==
    /\ LastDowInWeek
    /\ (out.op = "parse_dow" /\ MatchDow(Lower(out.text)).matched) =>
          IF out.relative - 7 * WeeksBack >= 1 THEN DowResolved
          ELSE \/ DowResolved
               \/ out.res = Raises("OverflowError")

\* "mon" and "mon2" relative to Wednesday 2020-02-26: the Monday 2 days
\* before, and the Monday 9 days before.
C16_Witness ==
    /\ out.op = "parse_dow"
    /\ out.relative = Ordinal(2020, 2, 26)
    /\ out.text = <<"m", "o", "n", "2">>
    /\ out.res = Found(Ordinal(2020, 2, 17))

\* The day of the week of the reference date itself: 7 days before.
SameDowWitness ==
    /\ out.op = "parse_dow"
    /\ out.relative = Ordinal(2020, 2, 26)
    /\ out.text = <<"w", "e", "d">>
    /\ out.res = Found(Ordinal(2020, 2, 19))

\* get_last_dow of a day and itself is 7.
LastDowSameDayWitness ==
    /\ out.op = "get_last_dow"
    /\ out.look_for = out.relative
    /\ out.res = 7

\* A day of the week before the first day of the calendar.
DowOverflowWitness ==
    /\ out.op = "parse_dow"
    /\ out.relative = Ordinal(MINYEAR, 1, 3)
    /\ out.res = Raises("OverflowError")

\* parse_yyyy_mm_dd was applied to a text of a month and a day that the
\* expression accepts.
MonthDayGiven ==
    /\ out.op = "parse_yyyy_mm_dd"
    /\ MatchYmd(out.text).matched
    /\ MatchYmd(out.text).year = <<>>

\* The result is the latest day of that month and day before the
\* reference date.
MonthDayBefore ==
    /\ out.res.is = "date"
    /\ MonthOf(out.res.val) = ParseInt(MatchYmd(out.text).month)
    /\ DayOf(out.res.val) = ParseInt(MatchYmd(out.text).day)
    /\ out.res.val < out.relative
    /\ out.relative - out.res.val <= 366

\* C17: parse_yyyy_mm_dd, for every text of a month and a day the grammar
\* accepts and every reference date, returns a date of that month and day
\* strictly before the reference date and at most one year before it, and
\* raises no error.
C17_MonthDayResolves == MonthDayGiven => MonthDayBefore

\* What the code keeps: when a date is returned, it is that date.
MonthDayBeforeWhenReturned ==
    (MonthDayGiven /\ out.res.is = "date") => MonthDayBefore

\* "0801" relative to 2020-06-01 is 2019-08-01, and the month and day of
\* the reference date give the year before.
MonthDayRollbackWitness ==
    /\ out.op = "parse_yyyy_mm_dd"
    /\ out.relative = Ordinal(2020, 6, 1)
    /\ \/ out.text = <<"0", "8", "0", "1">> /\ out.res = Found(Ordinal(2019, 8, 1))
       \/ out.text = <<"0", "6", "0", "1">> /\ out.res = Found(Ordinal(2019, 6, 1))

\* "0229" on the leap day itself: February 29 of the year before is asked
\* for and ValueError raised.
LeapDayRaisesWitness ==
    /\ out.op = "parse_yyyy_mm_dd"
    /\ out.relative = Ordinal(2020, 2, 29)
    /\ out.text = <<"0", "2", "2", "9">>
    /\ out.res = Raises("ValueError")

\* The days inside one of the ranges.
DaysCovered(ranges) ==
    UNION {ranges[k].begin..ranges[k].close : k \in 1..Len(ranges)}

\* The longest runs of days covered: the ranges with no day twice.
Runs(ranges) ==
    {r \in {DateRange(b, c) : b \in DaysCovered(ranges), c \in DaysCovered(ranges)} :
        /\ r.begin <= r.close
        /\ \A d \in r.begin..r.close : d \in DaysCovered(ranges)
        /\ (r.begin - 1) \notin DaysCovered(ranges)
        /\ (r.close + 1) \notin DaysCovered(ranges)}

\* A set of ranges as a tuple.
RECURSIVE TupleOf(_)
TupleOf(set) ==
    IF set = {} THEN <<>>
    ELSE LET r == CHOOSE x \in set : \A y \in set : x.begin <= y.begin
         IN  <<r>> \o TupleOf(set \ {r})

\* The union of the ranges with nothing twice.
UnionOf(ranges) == TupleOf(Runs(ranges))

\* C18: ranges that overlap or are given twice never give an entry twice:
\* each line of the log gives at most one returned entry, and the entries
\* returned are those returned for the union of the ranges.
C18_NoDuplicateEntries ==
    (out.op = "query") =>
        LET once == get_entries_from(fs, UnionOf(out.ranges), out.filters)
        IN  /\ out.res.raised = once.raised
            /\ out.res.matching = once.matching
            /\ Len(out.res.matching) = Cardinality(out.res.emitted)

\* Two ranges with a day in both, or the same range twice, and an entry of
\* that day returned.
C18_Witness ==
    /\ Returned
    /\ Len(out.ranges) = 2
    /\ \E d \in DaysCovered(out.ranges) :
          /\ \A k \in 1..2 : out.ranges[k].begin <= d /\ d <= out.ranges[k].close
          /\ \E j \in 1..Len(out.res.matching) : out.res.matching[j].begin.date = d
    /\ UnionOf(out.ranges) # out.ranges

\* The same range twice and every line after the first returned once.
SameRangeTwiceWitness ==
    /\ Returned
    /\ Len(out.ranges) = 2
    /\ out.ranges[1] = out.ranges[2]
    /\ Len(Stored) = 3
    /\ Len(out.res.matching) = 2

\* a is not after b: begin first, then cease, then text.
InOrder(a, b) ==
    \/ Key(a.begin) < Key(b.begin)
    \/ /\ Key(a.begin) = Key(b.begin)
       /\ \/ Key(a.cease) < Key(b.cease)
          \/ Key(a.cease) = Key(b.cease) /\ ~LessText(b.text, a.text)

\* C19: the list returned by get_entries is sorted by begin ascending, ties
\* ordered by cease and then by text, whatever the order in which the
\* backward pass found the entries.
C19_SortedEntries ==
    Returned =>
        \A j \in 1..(Len(out.res.matching) - 1) :
            InOrder(out.res.matching[j], out.res.matching[j + 1])

\* Two entries are returned, the newer found first and returned last.
C19_Witness ==
    /\ Returned
    /\ Len(out.res.matching) = 2
    /\ Key(out.res.matching[1].begin) < Key(out.res.matching[2].begin)
    /\ out.res.matching[2].cease = StampOf(Stored[Len(Stored)])

\* Two entries with one begin, ordered by cease; two entries with one begin
\* and one cease, ordered by text against the order of their lines.
TieByCeaseWitness ==
    /\ Returned
    /\ Len(out.res.matching) = 2
    /\ Key(out.res.matching[1].begin) = Key(out.res.matching[2].begin)
    /\ Key(out.res.matching[1].cease) < Key(out.res.matching[2].cease)

TieByTextWitness ==
    /\ Returned
    /\ Len(out.res.matching) = 2
    /\ Len(Stored) = 3
    /\ Key(out.res.matching[1].begin) = Key(out.res.matching[2].begin)
    /\ Key(out.res.matching[1].cease) = Key(out.res.matching[2].cease)
    /\ LessText(out.res.matching[1].text, out.res.matching[2].text)
    /\ out.res.matching[1].text = TextOf(Stored[3])

\* The file is made of one-byte characters and has been read.
OneByteRead ==
    /\ out.op = "lines"
    /\ \A k \in 1..Len(fs.data) : fs.data[k] \notin {LeadByte, ContByte}

\* The file has an empty line.
HasEmptyLine == \E k \in 1..Len(FileLines(fs.data)) : FileLines(fs.data)[k] = <<>>

\* C20: reverse_readline does not filter empty lines: of a file with empty
\* lines every line, the empty ones too, is yielded at its reversed
\* position for every buf_size from 1 to the file size; a file of no byte
\* is the only one that yields no line.
C20_EmptyLinesKept ==
    /\ (OneByteRead /\ HasEmptyLine)
          => out.res = [raised |-> FALSE, lines |-> Reverse(FileLines(fs.data))]
    /\ OneByteRead => (out.res.lines = <<>> <=> fs.data = <<>>)

\* What the code keeps: a file of no byte yields no line, every other file
\* at least one.
SomeLineUnlessEmpty ==
    OneByteRead => (out.res.lines = <<>> <=> fs.data = <<>>)

\* What is yielded without the empty lines is the file without its empty
\* lines, reversed.
RECURSIVE NonEmpty(_)
NonEmpty(lines) ==
    IF lines = <<>> THEN <<>>
    ELSE (IF Head(lines) = <<>> THEN <<>> ELSE <<Head(lines)>>) \o NonEmpty(Tail(lines))

NonEmptyLinesReversed ==
    OneByteRead => NonEmpty(out.res.lines) = Reverse(NonEmpty(FileLines(fs.data)))

\* An empty line between two lines is left out when its line breaks are
\* read in one chunk, and yielded when the buffer is of one character.
EmptyLineDroppedWitness ==
    /\ out.op = "lines"
    /\ fs.data = <<"a", NL, NL, "b", NL>>
    /\ out.buf_size = 5
    /\ out.res = [raised |-> FALSE, lines |-> << <<"b">>, <<"a">> >>]

EmptyLineKeptWitness ==
    /\ out.op = "lines"
    /\ fs.data = <<"a", NL, NL, "b", NL>>
    /\ out.buf_size = 1
    /\ out.res = [raised |-> FALSE, lines |-> << <<"b">>, <<>>, <<"a">> >>]

\* A file of one line break yields one empty line.
OnlyLineBreakWitness ==
    /\ out.op = "lines"
    /\ fs.data = <<NL>>
    /\ out.res = [raised |-> FALSE, lines |-> << <<>> >>]

\* The earliest begin of the ranges of the query.
EarliestBegin ==
    CHOOSE b \in {out.ranges[k].begin : k \in 1..Len(out.ranges)} :
        \A k \in 1..Len(out.ranges) : b <= out.ranges[k].begin

\* The k-th line of the source has a timestamp, dated before the earliest
\* begin.
Older(k) == IsStamped(Source[k]) /\ StampOf(Source[k]).date < EarliestBegin

\* C21: in get_entries with ranges, once a line dated before the earliest
\* begin of the ranges has been pulled from the source no further line is
\* pulled: at most one such line is read, the last one pulled, and no
\* entry is returned for it.
C21_BoundedReading ==
    (Returned /\ Len(out.ranges) > 0) =>
        /\ out.res.pulled <= Len(Source)
        /\ \A k \in 1..(out.res.pulled - 1) : ~Older(k)
        /\ (out.res.pulled < Len(Source)) => Older(out.res.pulled)
        /\ \A p \in out.res.emitted : p < out.res.pulled /\ ~Older(p)

\* A log of three lines, the newest not older than the earliest begin and
\* the two before it older: two lines are pulled and the oldest is never
\* read.  The pending entry begins at the older line pulled, outside every
\* range, and nothing is returned.
C21_Witness ==
    /\ Returned
    /\ Len(out.ranges) > 0
    /\ Len(Source) = 3
    /\ ~Older(1)
    /\ Older(2)
    /\ Older(3)
    /\ out.res.pulled = 2
    /\ out.res.matching = <<>>

\* An entry is returned and the line pulled after its own is the one that
\* stops the pass.
StopAfterEntryWitness ==
    /\ Returned
    /\ Len(Source) = 3
    /\ out.res.emitted = {1}
    /\ ~Older(2)
    /\ Older(3)
    /\ out.res.pulled = 3

\* text_to_date was given a day of the week and a reference date.
DowGiven == out.op = "text_to_date" /\ MatchDow(Lower(out.text)).matched

\* C22: text_to_date(text, relative) depends on its two arguments only: for
\* a day of the week and a reference date its result is
\* parse_dow(text, relative), computed from the reference date and not
\* from the date of the system.
C22_DowFromReference ==
    DowGiven => out.res = parse_dow(out.text, out.relative)

\* What the code does for a day of the week: the reference date is left
\* out and the date of the system is used.
DowFromSystemDate ==
    DowGiven => out.res = parse_dow(out.text, out.today)

\* The other forms are resolved from the reference date: the result is
\* the one of a day when the system date is the reference date.
OtherFormsFromReference ==
    (out.op = "text_to_date" /\ ~MatchDow(Lower(out.text)).matched) =>
        out.res = text_to_date(out.text, [some |-> TRUE, val |-> out.relative],
                               out.relative)

\* "mon" relative to Wednesday 2020-02-26 on 2026-10-30, a Friday: the
\* Monday before the system date, 2026-10-26, and not 2020-02-24.
DowFromSystemDateWitness ==
    /\ out.op = "text_to_date"
    /\ out.text = <<"m", "o", "n">>
    /\ out.relative = Ordinal(2020, 2, 26)
    /\ out.today = Ordinal(2026, 10, 30)
    /\ out.res = Found(Ordinal(2026, 10, 26))
    /\ parse_dow(out.text, out.relative) = Found(Ordinal(2020, 2, 24))

\* "yesterday" relative to 2020-02-26 is 2020-02-25 whatever the system
\* date.
OtherFormsWitness ==
    /\ out.op = "text_to_date"
    /\ out.text = <<"y", "e", "s", "t", "e", "r", "d", "a", "y">>
    /\ out.relative = Ordinal(2020, 2, 26)
    /\ out.today = Ordinal(2026, 10, 30)
    /\ out.res = Found(Ordinal(2020, 2, 25))

\* s is the beginning of t.
IsPrefix(s, t) == Len(s) <= Len(t) /\ SubSeq(t, 1, Len(s)) = s

\* The step is the removal of the directory by another process, not a step
\* of add_to_tsv.
RemovedByOther == fs.dir /\ ~fs'.dir

\* The step is the successful return of add_to_tsv.
AddReturns == out.op = "adding" /\ out'.op = "add" /\ ~out'.raised

\* The record is a timestamp, a tab, a text and a line break.
IsRecord(record) ==
    /\ Len(record) >= 5
    /\ \A k \in 1..3 : IsDigit(record[k])
    /\ record[4] = TAB
    /\ record[Len(record)] = NL

\* A step of the append path keeps the content of the file as the
\* beginning of the new content; the successful return adds the bytes of
\* the record to the file it opened, which is the file at the path unless
\* the directory was removed since, and every other step adds nothing.
AppendOnlyStep ==
    ~RemovedByOther =>
        /\ IsPrefix(fs.data, fs'.data)
        /\ IF AddReturns /\ fs.exists
           THEN /\ IsRecord(out.record)
                /\ fs'.data = fs.data \o Encode(out.record)
           ELSE fs'.data = fs.data

\* C23 as stated: under add_to_tsv the content of the file stays an
\* unchanged prefix of the new content, each successful call adds exactly
\* one line '<timestamp>TAB<text>' ended by a line break, and a failing
\* call adds nothing.
C23_AppendOnly ==
    [][/\ AppendOnlyStep
       /\ (AddReturns /\ fs.exists) =>
             Len(FileLines(fs'.data)) = Len(FileLines(fs.data)) + 1]_vars

\* What the code keeps: the file only grows at its end, and the successful
\* call adds the record '<timestamp>TAB<text>' and a line break, which is
\* one line more for each line break of the record.
AppendOnlyRecord ==
    [][/\ AppendOnlyStep
       /\ (AddReturns /\ fs.exists) =>
             Len(FileLines(fs'.data)) =
                 Len(FileLines(fs.data)) + CountOf(out.record, NL)]_vars

\* A successful append to a file that had a line in it.
C23_Witness ==
    /\ out.op = "add"
    /\ ~out.raised
    /\ out.before # <<>>
    /\ fs.data = out.before \o Encode(out.record)
    /\ CountOf(out.record, NL) = 1

\* A text with a line break appended: two lines more.
TwoLinesAddedWitness ==
    /\ out.op = "add"
    /\ ~out.raised
    /\ CountOf(out.record, NL) = 2
    /\ Len(FileLines(fs.data)) = Len(FileLines(out.before)) + 2

\* A failing call after the path was made and removed again: nothing is in
\* the file.
FailedAddsNothingWitness ==
    /\ out.op = "add"
    /\ out.raised
    /\ fs.data = out.before

=============================================================================
